---- MODULE Spec2Model ----
(***************************************************************************)
(* One-Thing-Focus: the end-of-day progression engine (lib/storage.ts),    *)
(* the notification scheduler (lib/notifications.ts) and the app context   *)
(* that drives both (AppProvider).                                         *)
(*                                                                         *)
(* Strings are modelled by their characters: a date "YYYY-MM-DD" is the    *)
(* sequence of its digits with Hyphen at the two separators, a time        *)
(* "HH:MM" is the sequence of its four digits.  null / undefined is the    *)
(* empty sequence None, a present value v is the one-element sequence      *)
(* Some(v).                                                                *)
(***************************************************************************)
EXTENDS Integers, Sequences, FiniteSets, Bags, TLC

VARIABLES
    clock,        \* the device clock: [y, m, d, mins, ms], local date, minute of the day, ms of the minute
    stProfile,    \* AsyncStorage[PROFILE_KEY]: None or Some(profile)
    stEntries,    \* AsyncStorage[ENTRIES_KEY]: date string -> DailyEntry
    profile,      \* AppProvider state `profile`: None or Some(profile)
    todayEntry,   \* AppProvider state `todayEntry`: None or Some(entry)
    scheduled,    \* the OS notification service: bag of [id, trigger]
    calls,        \* the calls the last operation made to the notification service
    granted,      \* notification permission status
    nextId,       \* number of ids generateId() has handed out
    nCompletions, \* number of completeTask calls made
    lastOp,       \* the operation that ran last
    eodProfile,   \* processEndOfDay under test: the profile argument
    eodEntries,   \* processEndOfDay under test: the entries argument
    eodResult,    \* processEndOfDay under test: None or Some(returned profile)
    eodCalls,     \* processEndOfDay under test: number of calls made
    procs,        \* the async calls made: call id -> its position, locals and steps done
    failures,     \* number of storage writes that were rejected
    rawProfile,   \* AsyncStorage[PROFILE_KEY] as the stored text
    rawEntries,   \* AsyncStorage[ENTRIES_KEY] as the stored text
    loaded,       \* None, or Some of what getProfile and getAllEntries returned
    dayStart      \* the profile with which the day began

vars == <<clock, stProfile, stEntries, profile, todayEntry, scheduled, calls,
          granted, nextId, nCompletions, lastOp, eodProfile, eodEntries, eodResult, eodCalls,
          procs, failures, rawProfile, rawEntries, loaded, dayStart>>

appVars == <<stProfile, stEntries, profile, todayEntry, nextId, nCompletions>>
svcVars == <<scheduled, calls, granted, lastOp>>
eodVars == <<eodProfile, eodEntries, eodResult, eodCalls>>
asyncVars == <<procs, failures>>
loadVars == <<rawProfile, rawEntries, loaded>>
extVars == <<asyncVars, loadVars, dayStart>>

None == <<>>
Some(v) == <<v>>
IsSome(o) == Len(o) = 1
Get(o) == o[1]

Max(a, b) == IF a >= b THEN a ELSE b
Min(a, b) == IF a <= b THEN a ELSE b
Abs(a) == IF a >= 0 THEN a ELSE 0 - a

\* no async call in flight, nothing read from storage yet
ExtIdle ==
    /\ procs = <<>>
    /\ failures = 0
    /\ rawProfile = None
    /\ rawEntries = None
    /\ loaded = None
    /\ dayStart = None

----------------------------------------------------------------------------
(* Dates and times                                                         *)

Hyphen == 0 - 1

\* String(n).padStart(2, '0')
PadStart2(n) == IF n < 10 THEN <<0, n>> ELSE <<n \div 10, n % 10>>

\* `${y}-${m}-${d}` with month and day padded to two digits
LocalDateStr(date) ==
    <<date.y \div 1000, (date.y \div 100) % 10, (date.y \div 10) % 10, date.y % 10>>
    \o <<Hyphen>> \o PadStart2(date.m) \o <<Hyphen>> \o PadStart2(date.d)

getTodayDate(clk) == LocalDateStr(clk)

IsLeapYear(y) == (y % 4 = 0 /\ y % 100 # 0) \/ y % 400 = 0

DaysInMonth(y, m) ==
    IF m = 2 THEN (IF IsLeapYear(y) THEN 29 ELSE 28)
    ELSE IF m \in {4, 6, 9, 11} THEN 30 ELSE 31

\* d.setDate(d.getDate() - 1): the Date object normalises day 0 to the last
\* day of the previous month
PrevDate(date) ==
    IF date.d > 1 THEN [y |-> date.y, m |-> date.m, d |-> date.d - 1]
    ELSE IF date.m > 1
         THEN [y |-> date.y, m |-> date.m - 1, d |-> DaysInMonth(date.y, date.m - 1)]
         ELSE [y |-> date.y - 1, m |-> 12, d |-> 31]

NextDate(date) ==
    IF date.d < DaysInMonth(date.y, date.m)
    THEN [y |-> date.y, m |-> date.m, d |-> date.d + 1]
    ELSE IF date.m < 12
         THEN [y |-> date.y, m |-> date.m + 1, d |-> 1]
         ELSE [y |-> date.y + 1, m |-> 1, d |-> 1]

DateOf(clk) == [y |-> clk.y, m |-> clk.m, d |-> clk.d]

\* a < b on strings: comparison by code units, a proper prefix is smaller
StrLess(a, b) ==
    \/ \E i \in 1..Min(Len(a), Len(b)) :
          /\ \A j \in 1..(i - 1) : a[j] = b[j]
          /\ a[i] < b[i]
    \/ /\ Len(a) < Len(b)
       /\ \A j \in 1..Len(a) : a[j] = b[j]

\* const [hourStr, minuteStr] = time.split(':'); parseInt(hourStr, 10)
ParseHour(time) == time[1] * 10 + time[2]
ParseMinute(time) == time[3] * 10 + time[4]

----------------------------------------------------------------------------
(* Records                                                                 *)

\* TaskItem: text, createdAt, completedAt and proof are not modelled
Task(id, done, time) == [id |-> id, isCompleted |-> done, scheduledTime |-> time]

Entry(dateStr, tasks, completed, level) ==
    [date |-> dateStr, tasks |-> tasks, completed |-> completed,
     levelAtTime |-> level, reflection |-> None]

----------------------------------------------------------------------------
(* Progression engine                                                      *)

LevelUpStreak == 7
MaxLevel == 3

defaultProfile ==
    [name |-> "",
     currentLevel |-> 1,
     currentLevelStreak |-> 0,
     longestStreak |-> 0,
     totalTasksCompleted |-> 0,
     onboardingComplete |-> FALSE,
     reminderPickTask |-> [enabled |-> FALSE, time |-> <<0, 8, 0, 0>>],
     reminderFocusNudge |-> [enabled |-> FALSE],
     reminderWrapUp |-> [enabled |-> FALSE, time |-> <<1, 8, 0, 0>>]]

\* MissedDay with the level drop left out
MissedDay_NoLevelDrop(p) == [p EXCEPT !.currentLevelStreak = 0]

\* MissedDay without the `currentLevel > 1` test
MissedDay_NoFloor(p) ==
    [p EXCEPT !.currentLevel = p.currentLevel - 1, !.currentLevelStreak = 0]

\* MissedDay that also clears longestStreak
MissedDay_ClearsLongest(p) ==
    IF p.currentLevel > 1
    THEN [p EXCEPT !.currentLevel = p.currentLevel - 1, !.currentLevelStreak = 0,
                   !.longestStreak = 0]
    ELSE [p EXCEPT !.currentLevelStreak = 0, !.longestStreak = 0]

\* the branch `if (profile.currentLevel > 1) return {level - 1, streak 0};
\* return {streak 0}` shared by both missed-day cases
MissedDay(p) ==
    IF p.currentLevel > 1
    THEN [p EXCEPT !.currentLevel = p.currentLevel - 1, !.currentLevelStreak = 0]
    ELSE [p EXCEPT !.currentLevelStreak = 0]

\* processEndOfDay with `d < yesterdayStr` dropped from the prior-history test
processEndOfDay_AnyEntryIsPrior(p, entries, clk) ==
    LET yesterdayStr == LocalDateStr(PrevDate(DateOf(clk)))
    IN  IF yesterdayStr \notin DOMAIN entries
        THEN IF p.currentLevelStreak > 0
             THEN IF DOMAIN entries # {} THEN MissedDay(p) ELSE p
             ELSE p
        ELSE LET yesterdayEntry == entries[yesterdayStr]
             IN  IF Len(yesterdayEntry.tasks) > 0 /\ ~yesterdayEntry.completed
                 THEN MissedDay(p)
                 ELSE p

\* processEndOfDay with `tasks.length > 0` dropped from the missed-day test
processEndOfDay_EmptyDayMissed(p, entries, clk) ==
    LET yesterdayStr == LocalDateStr(PrevDate(DateOf(clk)))
    IN  IF yesterdayStr \notin DOMAIN entries
        THEN IF p.currentLevelStreak > 0
             THEN LET hasAnyPriorEntry ==
                          \E d \in DOMAIN entries : StrLess(d, yesterdayStr)
                  IN  IF hasAnyPriorEntry THEN MissedDay(p) ELSE p
             ELSE p
        ELSE LET yesterdayEntry == entries[yesterdayStr]
             IN  IF ~yesterdayEntry.completed THEN MissedDay(p) ELSE p

processEndOfDay(p, entries, clk) ==
    LET yesterdayStr == LocalDateStr(PrevDate(DateOf(clk)))
    IN  IF yesterdayStr \notin DOMAIN entries
        THEN IF p.currentLevelStreak > 0
             THEN LET hasAnyPriorEntry ==
                          \E d \in DOMAIN entries : StrLess(d, yesterdayStr)
                  IN  IF hasAnyPriorEntry THEN MissedDay(p) ELSE p
             ELSE p
        ELSE LET yesterdayEntry == entries[yesterdayStr]
             IN  IF Len(yesterdayEntry.tasks) > 0 /\ ~yesterdayEntry.completed
                 THEN MissedDay(p)
                 ELSE p

----------------------------------------------------------------------------
(* Notification scheduler                                                  *)

PICK_TASK_ID == <<"pick-task-reminder">>
WRAP_UP_ID == <<"wrap-up-reminder">>
FocusNudgeId(taskId) == <<"focus-nudge-", taskId>>

LateHour == 21
OneHourMinutes == 60

\* Platform.OS === 'web': the model is of the native build
PlatformIsWeb == FALSE

\* The notification service is [live, log]: `live` is the bag of scheduled
\* notifications (a second schedule under an identifier adds a second
\* notification), `log` the calls received.  fireSec is the second of the
\* day at which the service fires the notification.
NowMs(clk) == clk.mins * 60000 + clk.ms

DailyTrigger(hour, minute) == [type |-> "daily", hour |-> hour, minute |-> minute]
TimeIntervalTrigger(seconds) == [type |-> "timeInterval", seconds |-> seconds, repeats |-> FALSE]

FireSec(trigger, clk) ==
    IF trigger.type = "daily"
    THEN trigger.hour * 3600 + trigger.minute * 60
    ELSE NowMs(clk) \div 1000 + trigger.seconds

\* Notifications.cancelScheduledNotificationAsync(identifier)
cancelScheduledNotificationAsync(svc, id) ==
    LET keep == { n \in DOMAIN svc.live : n.id # id }
    IN  [live |-> [n \in keep |-> svc.live[n]],
         log |-> Append(svc.log, [op |-> "cancel", id |-> id])]

\* Notifications.scheduleNotificationAsync({identifier, content, trigger})
scheduleNotificationAsync(svc, id, trigger, clk) ==
    [live |-> svc.live (+) SetToBag({[id |-> id, trigger |-> trigger,
                                      fireSec |-> FireSec(trigger, clk)]}),
     log |-> Append(svc.log, [op |-> "schedule", id |-> id, trigger |-> trigger])]

cancelPickTaskReminder(svc) ==
    IF PlatformIsWeb THEN svc ELSE cancelScheduledNotificationAsync(svc, PICK_TASK_ID)

cancelWrapUpReminder(svc) ==
    IF PlatformIsWeb THEN svc ELSE cancelScheduledNotificationAsync(svc, WRAP_UP_ID)

cancelFocusNudge(svc, taskId) ==
    IF PlatformIsWeb THEN svc
    ELSE cancelScheduledNotificationAsync(svc, FocusNudgeId(taskId))

RECURSIVE cancelAllFocusNudges(_, _)
cancelAllFocusNudges(svc, tasks) ==
    IF PlatformIsWeb \/ tasks = <<>> THEN svc
    ELSE cancelAllFocusNudges(cancelFocusNudge(svc, Head(tasks).id), Tail(tasks))

\* cancelAllReminders without the cancelAllFocusNudges(tasks) call
cancelAllReminders_NoNudges(svc, tasks) ==
    IF PlatformIsWeb THEN svc
    ELSE cancelWrapUpReminder(cancelPickTaskReminder(svc))

\* cancelAllReminders(tasks?): the callers modelled always pass the tasks
cancelAllReminders(svc, tasks) ==
    IF PlatformIsWeb THEN svc
    ELSE cancelAllFocusNudges(cancelWrapUpReminder(cancelPickTaskReminder(svc)), tasks)

\* schedulePickTaskReminder without the `hour >= 21` return
schedulePickTaskReminder_NoLateCheck(svc, time, clk) ==
    IF PlatformIsWeb THEN svc
    ELSE scheduleNotificationAsync(cancelPickTaskReminder(svc), PICK_TASK_ID,
                                   DailyTrigger(ParseHour(time), ParseMinute(time)), clk)

\* schedulePickTaskReminder without the leading cancelPickTaskReminder()
schedulePickTaskReminder_NoCancel(svc, time, clk) ==
    IF PlatformIsWeb THEN svc
    ELSE IF ParseHour(time) >= LateHour THEN svc
    ELSE scheduleNotificationAsync(svc, PICK_TASK_ID,
                                   DailyTrigger(ParseHour(time), ParseMinute(time)), clk)

schedulePickTaskReminder(svc, time, clk) ==
    IF PlatformIsWeb THEN svc
    ELSE LET s1 == cancelPickTaskReminder(svc)
             hour == ParseHour(time)
             minute == ParseMinute(time)
         IN  IF hour >= LateHour THEN s1
             ELSE scheduleNotificationAsync(s1, PICK_TASK_ID, DailyTrigger(hour, minute), clk)

\* scheduleFocusNudge without the `target.getTime() <= now.getTime()` return
scheduleFocusNudge_NoPastCheck(svc, taskId, scheduledTime, clk, perm) ==
    IF PlatformIsWeb THEN svc
    ELSE IF ~perm THEN svc
    ELSE LET identifier == FocusNudgeId(taskId)
             s1 == cancelScheduledNotificationAsync(svc, identifier)
             hour == ParseHour(scheduledTime)
             minute == ParseMinute(scheduledTime)
             now == NowMs(clk)
             target == (hour * 60 + minute) * 60000
             secondsUntil == (target - now) \div 1000
         IN  IF hour >= LateHour THEN s1
             ELSE scheduleNotificationAsync(s1, identifier,
                                            TimeIntervalTrigger(secondsUntil), clk)

scheduleFocusNudge(svc, taskId, scheduledTime, clk, perm) ==
    IF PlatformIsWeb THEN svc
    ELSE IF ~perm THEN svc
    ELSE LET identifier == FocusNudgeId(taskId)
             s1 == cancelScheduledNotificationAsync(svc, identifier)
             hour == ParseHour(scheduledTime)
             minute == ParseMinute(scheduledTime)
             now == NowMs(clk)
             target == (hour * 60 + minute) * 60000
             secondsUntil == (target - now) \div 1000
         IN  IF hour >= LateHour THEN s1
             ELSE IF target <= now THEN s1
             ELSE scheduleNotificationAsync(s1, identifier,
                                            TimeIntervalTrigger(secondsUntil), clk)

scheduleWrapUpReminder(svc, time, clk) ==
    IF PlatformIsWeb THEN svc
    ELSE LET s1 == cancelWrapUpReminder(svc)
             hour == ParseHour(time)
             minute == ParseMinute(time)
         IN  IF hour >= LateHour THEN s1
             ELSE scheduleNotificationAsync(s1, WRAP_UP_ID, DailyTrigger(hour, minute), clk)

\* isWithinOneHour without Math.abs
isWithinOneHour_Signed(time1, time2) ==
    (ParseHour(time1) * 60 + ParseMinute(time1))
      - (ParseHour(time2) * 60 + ParseMinute(time2)) <= OneHourMinutes

isWithinOneHour(time1, time2) ==
    LET mins1 == ParseHour(time1) * 60 + ParseMinute(time1)
        mins2 == ParseHour(time2) * 60 + ParseMinute(time2)
    IN  Abs(mins1 - mins2) <= OneHourMinutes

\* todayEntry.tasks.filter(t => !t.isCompleted)
IncompleteTasks(tasks) == SelectSeq(tasks, LAMBDA t : ~t.isCompleted)

\* incompleteTasks.find(t => t.scheduledTime): None when there is none
FindTaskWithTime(tasks) ==
    LET withTime == SelectSeq(tasks, LAMBDA t : IsSome(t.scheduledTime))
    IN  IF withTime = <<>> THEN None ELSE Some(Head(withTime))

\* for (const task of todayEntry.tasks) { cancel or schedule its nudge }
RECURSIVE SyncFocusNudges(_, _, _, _)
SyncFocusNudges(svc, tasks, clk, perm) ==
    IF tasks = <<>> THEN svc
    ELSE LET task == Head(tasks)
             s1 == IF task.isCompleted THEN cancelFocusNudge(svc, task.id)
                   ELSE IF IsSome(task.scheduledTime)
                        THEN scheduleFocusNudge(svc, task.id, Get(task.scheduledTime), clk, perm)
                        ELSE svc
         IN  SyncFocusNudges(s1, Tail(tasks), clk, perm)

\* the wrap-up part of syncNotifications
SyncWrapUp(svc, prof, entry, clk) ==
    LET incompleteTasks == IncompleteTasks(entry.tasks)
    IN  IF prof.reminderWrapUp.enabled /\ Len(incompleteTasks) > 0
        THEN LET taskWithTime == FindTaskWithTime(incompleteTasks)
                 shouldSkipWrapUp ==
                     /\ IsSome(taskWithTime)
                     /\ isWithinOneHour(Get(Get(taskWithTime).scheduledTime),
                                        prof.reminderWrapUp.time)
             IN  IF ~shouldSkipWrapUp
                 THEN scheduleWrapUpReminder(svc, prof.reminderWrapUp.time, clk)
                 ELSE cancelWrapUpReminder(svc)
        ELSE cancelWrapUpReminder(svc)

syncNotifications(svc, prof, entryOpt, clk, perm) ==
    IF PlatformIsWeb THEN svc
    ELSE IF ~perm THEN svc
    ELSE IF ~IsSome(entryOpt) \/ Len(Get(entryOpt).tasks) = 0
    THEN LET s1 == IF prof.reminderPickTask.enabled
                   THEN schedulePickTaskReminder(svc, prof.reminderPickTask.time, clk)
                   ELSE cancelPickTaskReminder(svc)
         IN  cancelWrapUpReminder(s1)
    ELSE IF Get(entryOpt).completed
    THEN cancelAllReminders(svc, Get(entryOpt).tasks)
    ELSE LET entry == Get(entryOpt)
             s1 == cancelPickTaskReminder(svc)
             s2 == IF prof.reminderFocusNudge.enabled
                   THEN SyncFocusNudges(s1, entry.tasks, clk, perm)
                   ELSE cancelAllFocusNudges(s1, entry.tasks)
         IN  SyncWrapUp(s2, prof, entry, clk)

\* rescheduleAllReminders(profile, todayEntry?): hasEntryArg is
\* `todayEntry !== undefined`
rescheduleAllReminders(svc, prof, hasEntryArg, entryOpt, clk, perm) ==
    IF PlatformIsWeb THEN svc
    ELSE IF hasEntryArg THEN syncNotifications(svc, prof, entryOpt, clk, perm)
    ELSE IF ~perm THEN svc
    ELSE LET s1 == IF prof.reminderPickTask.enabled
                   THEN schedulePickTaskReminder(svc, prof.reminderPickTask.time, clk)
                   ELSE cancelPickTaskReminder(svc)
         IN  IF prof.reminderWrapUp.enabled
             THEN scheduleWrapUpReminder(s1, prof.reminderWrapUp.time, clk)
             ELSE cancelWrapUpReminder(s1)

----------------------------------------------------------------------------
(* processEndOfDay applied to bounded inputs                               *)

EodWindow == 3
MaxEodStreak == 2
MaxEodCalls == 3

\* the date k days before `date`
RECURSIVE DaysBefore(_, _)
DaysBefore(date, k) == IF k = 0 THEN date ELSE DaysBefore(PrevDate(date), k - 1)

\* the shapes a stored entry can have: no task, one open task, one done
\* task, one done and one open task
EodEntryShapes(dateStr) ==
    { Entry(dateStr, <<>>, FALSE, 1),
      Entry(dateStr, <<Task(1, FALSE, None)>>, FALSE, 1),
      Entry(dateStr, <<Task(1, TRUE, None)>>, TRUE, 1),
      Entry(dateStr, <<Task(1, TRUE, None), Task(2, FALSE, None)>>, FALSE, 2) }

EodEntryMaps(clk) ==
    LET dates == { LocalDateStr(DaysBefore(DateOf(clk), k)) : k \in 0..EodWindow }
    IN  UNION { { e \in [ds -> UNION { EodEntryShapes(d) : d \in ds }] :
                    \A d \in ds : e[d].date = d } : ds \in SUBSET dates }

EodProfiles ==
    { [defaultProfile EXCEPT !.currentLevel = l, !.currentLevelStreak = s,
                             !.longestStreak = s + LevelUpStreak,
                             !.totalTasksCompleted = s + LevelUpStreak,
                             !.name = "Test", !.onboardingComplete = TRUE] :
        l \in 1..MaxLevel, s \in 0..MaxEodStreak }

\* the days on which the evaluation runs: the first of a year, the day
\* after a leap day, the first of a two-digit month
EodClocks ==
    { [y |-> 2024, m |-> 1, d |-> 1, mins |-> 540, ms |-> 0],
      [y |-> 2024, m |-> 3, d |-> 1, mins |-> 540, ms |-> 0],
      [y |-> 2023, m |-> 10, d |-> 2, mins |-> 540, ms |-> 0] }

InitEod ==
    /\ clock \in EodClocks
    /\ eodProfile \in EodProfiles
    /\ eodEntries \in EodEntryMaps(clock)
    /\ eodResult = None
    /\ eodCalls = 0
    /\ ExtIdle
    /\ stProfile = None
    /\ stEntries = <<>>
    /\ profile = None
    /\ todayEntry = None
    /\ scheduled = EmptyBag
    /\ calls = <<>>
    /\ granted = FALSE
    /\ nextId = 0
    /\ nCompletions = 0
    /\ lastOp = "init"

\* const processed = await processEndOfDay(prof, allEntries)
EvalEndOfDay ==
    /\ eodCalls = 0
    /\ eodResult' = Some(processEndOfDay(eodProfile, eodEntries, clock))
    /\ eodCalls' = 1
    /\ UNCHANGED <<clock, eodProfile, eodEntries, appVars, svcVars, extVars>>

\* the next run on the same day with the same entries: the profile it reads
\* is the one the previous run returned
ReEvalEndOfDay ==
    /\ eodCalls >= 1
    /\ eodCalls < MaxEodCalls
    /\ eodProfile' = Get(eodResult)
    /\ eodResult' = Some(processEndOfDay(Get(eodResult), eodEntries, clock))
    /\ eodCalls' = eodCalls + 1
    /\ UNCHANGED <<clock, eodEntries, appVars, svcVars, extVars>>

NextEod == EvalEndOfDay \/ ReEvalEndOfDay

SpecEod == InitEod /\ [][NextEod]_vars

EodYesterdayStr == LocalDateStr(PrevDate(DateOf(clock)))
EodHasYesterday == EodYesterdayStr \in DOMAIN eodEntries
EodYesterdayMissed ==
    /\ EodHasYesterday
    /\ Len(eodEntries[EodYesterdayStr].tasks) > 0
    /\ ~eodEntries[EodYesterdayStr].completed

C2_Idempotent ==
    eodCalls >= 2 => Get(eodResult) = eodProfile

C6_CompletedOrRestDayUntouched ==
    IsSome(eodResult) =>
        /\ Get(eodResult).currentLevelStreak <= eodProfile.currentLevelStreak
        /\ (EodHasYesterday /\ (eodEntries[EodYesterdayStr].completed
                                \/ Len(eodEntries[EodYesterdayStr].tasks) = 0)) =>
              /\ Get(eodResult).currentLevel = eodProfile.currentLevel
              /\ Get(eodResult).currentLevelStreak = eodProfile.currentLevelStreak

C6_Witness ==
    /\ eodCalls = 1
    /\ EodHasYesterday
    /\ Len(eodEntries[EodYesterdayStr].tasks) = 0
    /\ eodProfile.currentLevel = 3
    /\ eodProfile.currentLevelStreak = 2
    /\ Get(eodResult) = eodProfile

----------------------------------------------------------------------------
(* The scheduler applied to bounded inputs                                 *)

MaxSchedTasks == 2

\* "08:00" and "21:00"
PickTimes == { <<0, 8, 0, 0>>, <<2, 1, 0, 0>> }
\* "17:30", "19:00" and "21:30"
WrapUpTimes == { <<1, 7, 3, 0>>, <<1, 9, 0, 0>>, <<2, 1, 3, 0>> }
\* "16:00", "18:30", "22:00"
TaskTimes == { <<1, 6, 0, 0>>, <<1, 8, 3, 0>>, <<2, 2, 0, 0>> }
\* 16:00
SchedNowMinutes == { 960 }

SchedProfiles ==
    { [defaultProfile EXCEPT !.reminderPickTask = [enabled |-> pe, time |-> pt],
                             !.reminderFocusNudge = [enabled |-> fe],
                             !.reminderWrapUp = [enabled |-> we, time |-> wt]] :
        pe \in BOOLEAN, pt \in PickTimes, fe \in BOOLEAN,
        we \in BOOLEAN, wt \in WrapUpTimes }

AllDone(tasks) == \A i \in 1..Len(tasks) : tasks[i].isCompleted

\* task sequences of length n with ids 1..n
SchedTaskSeqs(n) ==
    { ts \in [1..n -> { Task(i, dn, tm) : i \in 1..n, dn \in BOOLEAN,
                                           tm \in {None} \cup { Some(t) : t \in TaskTimes } }] :
        \A i \in 1..n : ts[i].id = i }

\* today's entry as the app context can hold it: completed is true when
\* every task is done, and can be left true by a task added later
SchedEntries(dateStr) ==
    {None} \cup
    { Some(Entry(dateStr, ts, c, 1)) :
        ts \in UNION { SchedTaskSeqs(n) : n \in 0..MaxSchedTasks }, c \in BOOLEAN }

SchedEntryOk(e) ==
    ~IsSome(e) \/
    LET en == Get(e)
    IN  /\ (Len(en.tasks) = 0 => ~en.completed)
        /\ (Len(en.tasks) = 1 => en.completed = AllDone(en.tasks))
        /\ (AllDone(en.tasks) /\ Len(en.tasks) > 0 => en.completed)

Notification(id, trigger, clk) ==
    [id |-> id, trigger |-> trigger, fireSec |-> FireSec(trigger, clk)]

\* what an earlier run can have left with the service: nothing, or one
\* notification under every identifier, also for a task that is gone
SchedPriors(clk) ==
    { EmptyBag,
      SetToBag({ Notification(PICK_TASK_ID, DailyTrigger(8, 0), clk),
                 Notification(WRAP_UP_ID, DailyTrigger(19, 0), clk) }
               \cup { Notification(FocusNudgeId(i), TimeIntervalTrigger(18 * 3600 + 1800 - NowMs(clk) \div 1000), clk) :
                        i \in 1..(MaxSchedTasks + 1) }) }

InitSched ==
    /\ clock \in { [y |-> 2024, m |-> 1, d |-> 1, mins |-> n, ms |-> 0] : n \in SchedNowMinutes }
    /\ profile \in { Some(p) : p \in SchedProfiles }
    /\ todayEntry \in { e \in SchedEntries(getTodayDate(clock)) : SchedEntryOk(e) }
    /\ scheduled \in SchedPriors(clock)
    /\ calls = <<>>
    /\ granted \in BOOLEAN
    /\ lastOp = "init"
    /\ stProfile = None
    /\ stEntries = <<>>
    /\ nextId = 0
    /\ nCompletions = 0
    /\ eodProfile = defaultProfile
    /\ eodEntries = <<>>
    /\ eodResult = None
    /\ eodCalls = 0
    /\ ExtIdle

Service == [live |-> scheduled, log |-> <<>>]

TodayTasks == IF IsSome(todayEntry) THEN Get(todayEntry).tasks ELSE <<>>

SchedSync ==
    /\ LET svc == syncNotifications(Service, Get(profile), todayEntry, clock, granted)
       IN  /\ scheduled' = svc.live
           /\ calls' = svc.log
    /\ lastOp' = "syncNotifications"
    /\ UNCHANGED <<clock, granted, appVars, eodVars, extVars>>

\* rescheduleAllReminders(profile) and rescheduleAllReminders(profile, todayEntry)
SchedReschedule ==
    /\ \E hasEntryArg \in BOOLEAN :
         LET svc == rescheduleAllReminders(Service, Get(profile), hasEntryArg,
                                           todayEntry, clock, granted)
         IN  /\ scheduled' = svc.live
             /\ calls' = svc.log
             /\ lastOp' = IF hasEntryArg THEN "rescheduleAllReminders(entry)"
                          ELSE "rescheduleAllReminders"
    /\ UNCHANGED <<clock, granted, appVars, eodVars, extVars>>

\* the user grants or revokes the permission in the system settings
SchedSetPermission ==
    /\ granted' = ~granted
    /\ calls' = <<>>
    /\ lastOp' = "setPermission"
    /\ UNCHANGED <<clock, scheduled, appVars, eodVars, extVars>>

\* schedulePickTaskReminder(profile.reminderPickTask.time) called on its own
SchedPick ==
    /\ LET svc == schedulePickTaskReminder(Service, Get(profile).reminderPickTask.time, clock)
       IN  /\ scheduled' = svc.live
           /\ calls' = svc.log
    /\ lastOp' = "schedulePickTaskReminder"
    /\ UNCHANGED <<clock, granted, appVars, eodVars, extVars>>

\* scheduleWrapUpReminder(profile.reminderWrapUp.time) called on its own
SchedWrapUp ==
    /\ LET svc == scheduleWrapUpReminder(Service, Get(profile).reminderWrapUp.time, clock)
       IN  /\ scheduled' = svc.live
           /\ calls' = svc.log
    /\ lastOp' = "scheduleWrapUpReminder"
    /\ UNCHANGED <<clock, granted, appVars, eodVars, extVars>>

\* scheduleFocusNudge(task.id, task.text, task.scheduledTime) called on its
\* own for a task of today's entry
SchedNudge ==
    /\ \E i \in 1..Len(TodayTasks) :
          /\ IsSome(TodayTasks[i].scheduledTime)
          /\ LET svc == scheduleFocusNudge(Service, TodayTasks[i].id,
                                          Get(TodayTasks[i].scheduledTime), clock, granted)
             IN  /\ scheduled' = svc.live
                 /\ calls' = svc.log
    /\ lastOp' = "scheduleFocusNudge"
    /\ UNCHANGED <<clock, granted, appVars, eodVars, extVars>>

NextSched == SchedSync \/ SchedReschedule \/ SchedSetPermission

SpecSched == InitSched /\ [][NextSched]_vars

\* number of live notifications under an identifier
LiveCount(id) ==
    LET ns == { n \in DOMAIN scheduled : n.id = id }
    IN  BagCardinality([n \in ns |-> scheduled[n]])

IsLive(id) == LiveCount(id) > 0

\* the last operation was a reconcile of (profile, todayEntry)
SyncRan == lastOp \in {"syncNotifications", "rescheduleAllReminders(entry)"}
ScheduleRan == SyncRan \/ lastOp = "rescheduleAllReminders"

InProgress == Len(TodayTasks) > 0 /\ ~Get(todayEntry).completed

IsLate(time) == time[1] * 10 + time[2] >= 21
MinuteOfDay(time) == (time[1] * 10 + time[2]) * 60 + time[3] * 10 + time[4]
Distance(time1, time2) == Abs(MinuteOfDay(time1) - MinuteOfDay(time2))

C8_AtMostOnePerIdentifier ==
    /\ \A n \in DOMAIN scheduled : LiveCount(n.id) = 1
    /\ \A i \in 1..Len(calls) :
          calls[i].op = "schedule" =>
              /\ i > 1
              /\ calls[i - 1] = [op |-> "cancel", id |-> calls[i].id]
    /\ ( /\ SyncRan /\ granted
         /\ TodayTasks = <<>>
         /\ Get(profile).reminderPickTask.enabled
         /\ ~IsLate(Get(profile).reminderPickTask.time) )
       => LiveCount(PICK_TASK_ID) = 1

\* a reconcile on top of a pick reminder that was already live
C8_Witness ==
    /\ lastOp = "syncNotifications"
    /\ granted
    /\ TodayTasks = <<>>
    /\ Get(profile).reminderPickTask.enabled
    /\ ~IsLate(Get(profile).reminderPickTask.time)
    /\ calls[1] = [op |-> "cancel", id |-> PICK_TASK_ID]
    /\ calls[2].op = "schedule"
    /\ LiveCount(PICK_TASK_ID) = 1
    /\ IsLive(FocusNudgeId(1))

\* C9: in the in-progress state with wrap-up enabled, after a reconcile the
\* wrap-up reminder is live only if some task is incomplete and no
\* incomplete task has a scheduledTime within 60 minutes of the wrap-up time.
C9_WrapUpClearOfEveryTask ==
    (SyncRan /\ granted /\ InProgress /\ Get(profile).reminderWrapUp.enabled
       /\ IsLive(WRAP_UP_ID)) =>
        /\ \E i \in 1..Len(TodayTasks) : ~TodayTasks[i].isCompleted
        /\ \A i \in 1..Len(TodayTasks) :
              (~TodayTasks[i].isCompleted /\ IsSome(TodayTasks[i].scheduledTime)) =>
                  Distance(Get(TodayTasks[i].scheduledTime),
                           Get(profile).reminderWrapUp.time) > 60

\* the incomplete tasks of today's entry
OpenTasks == { i \in 1..Len(TodayTasks) : ~TodayTasks[i].isCompleted }

\* C10: with one incomplete task that has a scheduledTime and wrap-up
\* enabled before 21:00, after a reconcile of the in-progress day the
\* wrap-up reminder is live exactly when the two times are more than 60
\* minutes apart, in either direction.
C10_WrapUpWindow ==
    (SyncRan /\ granted /\ InProgress /\ Get(profile).reminderWrapUp.enabled
       /\ ~IsLate(Get(profile).reminderWrapUp.time)
       /\ Cardinality(OpenTasks) = 1) =>
        \A i \in OpenTasks :
            IsSome(TodayTasks[i].scheduledTime) =>
                ( LiveCount(WRAP_UP_ID) =
                    IF Distance(Get(TodayTasks[i].scheduledTime),
                                Get(profile).reminderWrapUp.time) > 60
                    THEN 1 ELSE 0 )

\* task at 18:30, wrap-up at 19:00: the wrap-up an earlier run had left is
\* cancelled
C10_Witness ==
    /\ lastOp = "syncNotifications"
    /\ granted
    /\ InProgress
    /\ Len(TodayTasks) = 1
    /\ ~TodayTasks[1].isCompleted
    /\ TodayTasks[1].scheduledTime = Some(<<1, 8, 3, 0>>)
    /\ Get(profile).reminderWrapUp = [enabled |-> TRUE, time |-> <<1, 9, 0, 0>>]
    /\ ~IsLive(WRAP_UP_ID)
    /\ IsLive(FocusNudgeId(2))

\* C11: after a reconcile with no entry or an entry without tasks
\* (permission granted) only pick-task can be live, and it is live exactly
\* when it is enabled with a time before 21:00; wrap-up and every focus
\* nudge, also one left for a task that is no longer in the entry, are gone.
C11_NoTaskOnlyPick ==
    (SyncRan /\ granted /\ TodayTasks = <<>>) =>
        /\ \A n \in DOMAIN scheduled : n.id = PICK_TASK_ID
        /\ LiveCount(PICK_TASK_ID) =
              IF Get(profile).reminderPickTask.enabled
                 /\ ~IsLate(Get(profile).reminderPickTask.time)
              THEN 1 ELSE 0

\* C12: after a reconcile with today's entry completed (permission granted)
\* no pick-task, no wrap-up and no focus nudge of a task of the entry is
\* live.
C12_CompletedDayCancelsAll ==
    (SyncRan /\ granted /\ Len(TodayTasks) > 0 /\ Get(todayEntry).completed) =>
        /\ ~IsLive(PICK_TASK_ID)
        /\ ~IsLive(WRAP_UP_ID)
        /\ \A i \in 1..Len(TodayTasks) : ~IsLive(FocusNudgeId(TodayTasks[i].id))

\* a completed two-task day reconciled on top of reminders that were live
\* under every identifier
C12_Witness ==
    /\ lastOp = "syncNotifications"
    /\ granted
    /\ Len(TodayTasks) = 2
    /\ Get(todayEntry).completed
    /\ Len(calls) = 4
    /\ scheduled = SetToBag({ Notification(FocusNudgeId(3),
                                TimeIntervalTrigger(18 * 3600 + 1800 - NowMs(clock) \div 1000),
                                clock) })

\* the time is before 21:00 and strictly later than now
NudgeDue(time) == ~IsLate(time) /\ MinuteOfDay(time) * 60000 > NowMs(clock)

\* C13: after a reconcile of the in-progress day with focus nudges enabled
\* (permission granted) pick-task is not live, no nudge is live for a
\* completed task, and every incomplete task with a scheduledTime has a
\* one-shot nudge firing at that time exactly when the time is before 21:00
\* and strictly later than now.
C13_InProgressNudges ==
    (SyncRan /\ granted /\ InProgress /\ Get(profile).reminderFocusNudge.enabled) =>
        /\ ~IsLive(PICK_TASK_ID)
        /\ \A i \in 1..Len(TodayTasks) :
              LET task == TodayTasks[i]
              IN  /\ task.isCompleted => ~IsLive(FocusNudgeId(task.id))
                  /\ (~task.isCompleted /\ IsSome(task.scheduledTime)) =>
                        /\ LiveCount(FocusNudgeId(task.id)) =
                              IF NudgeDue(Get(task.scheduledTime)) THEN 1 ELSE 0
                        /\ \A n \in DOMAIN scheduled :
                              n.id = FocusNudgeId(task.id) =>
                                  /\ n.trigger.type = "timeInterval"
                                  /\ ~n.trigger.repeats
                                  /\ n.fireSec = MinuteOfDay(Get(task.scheduledTime)) * 60

\* first task done, second open at 18:30, no reminder live before: the run
\* scheduled the second task's nudge only
C13_Witness ==
    /\ lastOp = "syncNotifications"
    /\ granted
    /\ InProgress
    /\ Get(profile).reminderFocusNudge.enabled
    /\ Len(TodayTasks) = 2
    /\ TodayTasks[1].isCompleted
    /\ ~TodayTasks[2].isCompleted
    /\ TodayTasks[2].scheduledTime = Some(<<1, 8, 3, 0>>)
    /\ ~IsLive(FocusNudgeId(1))
    /\ LiveCount(FocusNudgeId(2)) = 1
    /\ ~IsLive(FocusNudgeId(3))

\* C25: the live notifications after a reconcile (permission granted) are a
\* function of the profile, today's entry and the current time only: the
\* run ends with the same live set from every set of previously scheduled
\* notifications, so no stale alert of an earlier state survives.
C25_LiveSetIndependentOfPrior ==
    (SyncRan /\ granted) =>
        \A prior \in SchedPriors(clock) :
            syncNotifications([live |-> prior, log |-> <<>>], Get(profile), todayEntry,
                              clock, granted).live = scheduled

\* every scheduling operation of the module, each callable on its own, on
\* entries of at most MaxOpsTasks tasks
MaxOpsTasks == 1

InitOps == InitSched /\ Len(TodayTasks) <= MaxOpsTasks

NextOps ==
    \/ SchedSync
    \/ SchedReschedule
    \/ SchedSetPermission
    \/ SchedPick
    \/ SchedWrapUp
    \/ SchedNudge

SpecOps == InitOps /\ [][NextOps]_vars

\* the last operation was one of the scheduling operations
SchedulingOpRan ==
    \/ ScheduleRan
    \/ lastOp \in {"schedulePickTaskReminder", "scheduleWrapUpReminder", "scheduleFocusNudge"}

\* C19: with permission not granted, syncNotifications,
\* rescheduleAllReminders, scheduleFocusNudge, schedulePickTaskReminder and
\* scheduleWrapUpReminder make no schedule call to the notification service.
C19_NoScheduleWithoutPermission ==
    (SchedulingOpRan /\ ~granted) =>
        \A i \in 1..Len(calls) : calls[i].op # "schedule"

\* C20: with permission not granted, a reconcile still removes what the
\* state requires to be removed: every reminder of a completed day, pick-task
\* of a day in progress, wrap-up (and a disabled pick-task) of a day without
\* tasks.
C20_CancelsWithoutPermission ==
    (SyncRan /\ ~granted) =>
        IF TodayTasks = <<>>
        THEN /\ ~IsLive(WRAP_UP_ID)
             /\ ~Get(profile).reminderPickTask.enabled => ~IsLive(PICK_TASK_ID)
        ELSE IF Get(todayEntry).completed
        THEN /\ ~IsLive(PICK_TASK_ID)
             /\ ~IsLive(WRAP_UP_ID)
             /\ \A i \in 1..Len(TodayTasks) : ~IsLive(FocusNudgeId(TodayTasks[i].id))
        ELSE ~IsLive(PICK_TASK_ID)

----------------------------------------------------------------------------
(* The app context (AppProvider) and the screens that call it              *)

MaxDays == 1
MaxTasks == 2
MaxIds == 2
MaxCompletions == 3

StartDate == [y |-> 2023, m |-> 12, d |-> 31]
\* 09:00
AppNowMinutes == { 540 }
\* "18:30"
AppTaskTimes == { <<1, 8, 3, 0>> }
Moods == { "calm" }

RECURSIVE DaysAfter(_, _)
DaysAfter(date, k) == IF k = 0 THEN date ELSE DaysAfter(NextDate(date), k - 1)

\* getProfile(): the stored profile, or a fresh default when the key is absent
getProfile(stP) == IF IsSome(stP) THEN Get(stP) ELSE defaultProfile

\* saveEntry(entry): entries[entry.date] = entry
saveEntry(stE, entry) ==
    [d \in DOMAIN stE \cup {entry.date} |-> IF d = entry.date THEN entry ELSE stE[d]]

\* loadData(): what it stores, what it puts in the context state and what it
\* leaves with the notification service
loadData(stP, stE, clk, svc, perm) ==
    LET prof0 == getProfile(stP)
        processed == processEndOfDay(prof0, stE, clk)
        changed == \/ processed.currentLevel # prof0.currentLevel
                   \/ processed.currentLevelStreak # prof0.currentLevelStreak
        prof == IF changed THEN processed ELSE prof0
        today == getTodayDate(clk)
        currentTodayEntry == IF today \in DOMAIN stE THEN Some(stE[today]) ELSE None
    IN  [stProfile |-> IF changed THEN Some(prof) ELSE stP,
         profile |-> Some(prof),
         todayEntry |-> currentTodayEntry,
         svc |-> syncNotifications(svc, prof, currentTodayEntry, clk, perm)]

\* CompletionProfile without the longestStreak update
CompletionProfile_NoLongest(p, allDone, nTasks) ==
    LET p1 == [p EXCEPT !.totalTasksCompleted = p.totalTasksCompleted + 1]
    IN  IF allDone /\ nTasks > 0
        THEN LET p2 == [p1 EXCEPT !.currentLevelStreak = p.currentLevelStreak + 1]
             IN  IF p2.currentLevelStreak >= LevelUpStreak /\ p2.currentLevel < MaxLevel
                 THEN [p2 EXCEPT !.currentLevel = Min(p2.currentLevel + 1, MaxLevel),
                                 !.currentLevelStreak = 0]
                 ELSE p2
        ELSE p1

\* CompletionProfile with `newProfile.currentLevelStreak = 0` left out of the
\* level-up
CompletionProfile_LevelUpKeepsStreak(p, allDone, nTasks) ==
    LET p1 == [p EXCEPT !.totalTasksCompleted = p.totalTasksCompleted + 1]
    IN  IF allDone /\ nTasks > 0
        THEN LET streak == p.currentLevelStreak + 1
                 p2 == [p1 EXCEPT !.currentLevelStreak = streak,
                                  !.longestStreak = IF streak > p1.longestStreak
                                                    THEN streak ELSE p1.longestStreak]
             IN  IF p2.currentLevelStreak >= LevelUpStreak /\ p2.currentLevel < MaxLevel
                 THEN [p2 EXCEPT !.currentLevel = Min(p2.currentLevel + 1, MaxLevel)]
                 ELSE p2
        ELSE p1

\* CompletionProfile without `newProfile.currentLevel < 3` in the level-up test
CompletionProfile_NoLevelCap(p, allDone, nTasks) ==
    LET p1 == [p EXCEPT !.totalTasksCompleted = p.totalTasksCompleted + 1]
    IN  IF allDone /\ nTasks > 0
        THEN LET streak == p.currentLevelStreak + 1
                 p2 == [p1 EXCEPT !.currentLevelStreak = streak,
                                  !.longestStreak = IF streak > p1.longestStreak
                                                    THEN streak ELSE p1.longestStreak]
             IN  IF p2.currentLevelStreak >= LevelUpStreak
                 THEN [p2 EXCEPT !.currentLevel = Min(p2.currentLevel + 1, MaxLevel),
                                 !.currentLevelStreak = 0]
                 ELSE p2
        ELSE p1

\* the profile part of completeTask: totalTasksCompleted, streak, level-up
CompletionProfile(p, allDone, nTasks) ==
    LET p1 == [p EXCEPT !.totalTasksCompleted = p.totalTasksCompleted + 1]
    IN  IF allDone /\ nTasks > 0
        THEN LET streak == p.currentLevelStreak + 1
                 p2 == [p1 EXCEPT !.currentLevelStreak = streak,
                                  !.longestStreak = IF streak > p1.longestStreak
                                                    THEN streak ELSE p1.longestStreak]
             IN  IF p2.currentLevelStreak >= LevelUpStreak /\ p2.currentLevel < MaxLevel
                 THEN [p2 EXCEPT !.currentLevel = Min(p2.currentLevel + 1, MaxLevel),
                                 !.currentLevelStreak = 0]
                 ELSE p2
        ELSE p1

\* todayEntry.tasks.map(t => t.id === taskId ? {...t, isCompleted: true} : t)
MarkCompleted(tasks, taskId) ==
    [i \in 1..Len(tasks) |->
        IF tasks[i].id = taskId THEN [tasks[i] EXCEPT !.isCompleted = TRUE] ELSE tasks[i]]

\* what storage holds when the app is opened: nothing (fresh install), or
\* the profile and the last days' entries an earlier session left.  Entries
\* older than two days are represented by the one dated two days ago.
StoredProfiles ==
    { [defaultProfile EXCEPT
          !.currentLevel = l, !.currentLevelStreak = s,
          !.longestStreak = IF l > 1 THEN LevelUpStreak ELSE s,
          !.totalTasksCompleted = LevelUpStreak * (l - 1) + s,
          !.onboardingComplete = TRUE,
          !.reminderFocusNudge = [enabled |-> r],
          !.reminderWrapUp = [enabled |-> r, time |-> <<1, 9, 0, 0>>]] :
        l \in 1..MaxLevel, s \in {LevelUpStreak - 1}, r \in {TRUE} }

StoredEntryMaps(clk) ==
    LET y1 == LocalDateStr(PrevDate(DateOf(clk)))
        y2 == LocalDateStr(PrevDate(PrevDate(DateOf(clk))))
        done(d) == Entry(d, <<Task(0, TRUE, None)>>, TRUE, 1)
        open(d) == Entry(d, <<Task(0, FALSE, None)>>, FALSE, 1)
    IN  { [d \in {y1, y2} |-> done(d)],
          [d \in {y1, y2} |-> IF d = y1 THEN open(d) ELSE done(d)] }

\* the app before its first loadData
InitApp ==
    /\ clock = [y |-> StartDate.y, m |-> StartDate.m, d |-> StartDate.d,
                mins |-> 540, ms |-> 0]
    /\ \/ /\ stProfile = None
          /\ stEntries = <<>>
       \/ /\ stProfile \in { Some(p) : p \in StoredProfiles }
          /\ stEntries \in StoredEntryMaps(clock)
    /\ profile = None
    /\ todayEntry = None
    /\ scheduled = EmptyBag
    /\ calls = <<>>
    /\ granted = FALSE
    /\ nextId = 0
    /\ nCompletions = 0
    /\ lastOp = "init"
    /\ eodProfile = defaultProfile
    /\ eodEntries = <<>>
    /\ eodResult = None
    /\ eodCalls = 0

Init == InitApp /\ ExtIdle

\* loadData: on mount and as refreshData
LoadData ==
    /\ LET r == loadData(stProfile, stEntries, clock, Service, granted)
       IN  /\ stProfile' = r.stProfile
           /\ profile' = r.profile
           /\ todayEntry' = r.todayEntry
           /\ scheduled' = r.svc.live
           /\ calls' = r.svc.log
    /\ UNCHANGED <<lastOp, clock, stEntries, granted, nextId, nCompletions, eodVars, extVars>>

AddTask ==
    /\ IsSome(profile)
    /\ nextId < MaxIds
    /\ Len(TodayTasks) < MaxTasks
    /\ LET today == getTodayDate(clock)
           current == IF IsSome(todayEntry) THEN Get(todayEntry)
                      ELSE Entry(today, <<>>, FALSE, Get(profile).currentLevel)
           newTask == Task(nextId + 1, FALSE, None)
           updated == [current EXCEPT !.tasks = Append(current.tasks, newTask)]
           svc == syncNotifications(Service, Get(profile), Some(updated), clock, granted)
       IN  /\ stEntries' = saveEntry(stEntries, updated)
           /\ todayEntry' = Some(updated)
           /\ scheduled' = svc.live
           /\ calls' = svc.log
    /\ nextId' = nextId + 1
    /\ UNCHANGED <<lastOp, clock, stProfile, profile, granted, nCompletions, eodVars, extVars>>

CompleteTask(taskId) ==
    /\ IsSome(todayEntry)
    /\ IsSome(profile)
    /\ nCompletions < MaxCompletions
    /\ LET entry == Get(todayEntry)
           updatedTasks == MarkCompleted(entry.tasks, taskId)
           allDone == AllDone(updatedTasks)
           newProfile == CompletionProfile(Get(profile), allDone, Len(updatedTasks))
           updated == [entry EXCEPT !.tasks = updatedTasks, !.completed = allDone]
           svc == syncNotifications(Service, newProfile, Some(updated), clock, granted)
       IN  /\ stEntries' = saveEntry(stEntries, updated)
           /\ stProfile' = Some(newProfile)
           /\ todayEntry' = Some(updated)
           /\ profile' = Some(newProfile)
           /\ scheduled' = svc.live
           /\ calls' = svc.log
    /\ nCompletions' = nCompletions + 1
    /\ UNCHANGED <<lastOp, clock, granted, nextId, eodVars, extVars>>

AddReflection(mood) ==
    /\ IsSome(todayEntry)
    /\ LET updated == [Get(todayEntry) EXCEPT !.reflection = Some(mood)]
           svc == IF IsSome(profile)
                  THEN syncNotifications(Service, Get(profile), Some(updated), clock, granted)
                  ELSE Service
       IN  /\ stEntries' = saveEntry(stEntries, updated)
           /\ todayEntry' = Some(updated)
           /\ scheduled' = svc.live
           /\ calls' = svc.log
    /\ UNCHANGED <<lastOp, clock, stProfile, profile, granted, nextId, nCompletions, eodVars, extVars>>

\* updateProfile({reminderPickTask}) followed by
\* rescheduleAllReminders(newProfile, todayEntry)
UpdateReminder(updatedPick, perm) ==
    LET newProfile == [Get(profile) EXCEPT !.reminderPickTask = updatedPick]
        svc == rescheduleAllReminders(Service, newProfile, TRUE, todayEntry, clock, perm)
    IN  /\ stProfile' = Some(newProfile)
        /\ profile' = Some(newProfile)
        /\ scheduled' = svc.live
        /\ calls' = svc.log

\* the pick-task switch of the profile screen; `asked` is the answer to the
\* permission request made when the screen holds the permission as denied
HandleTogglePickReminder(value, screenSaysGranted, asked) ==
    /\ IsSome(profile)
    /\ IF value /\ ~screenSaysGranted /\ ~(granted \/ asked)
       THEN UNCHANGED <<stProfile, profile, scheduled, granted>> /\ calls' = <<>>
       ELSE /\ granted' = IF value /\ ~screenSaysGranted THEN TRUE ELSE granted
            /\ UpdateReminder([Get(profile).reminderPickTask EXCEPT !.enabled = value],
                              granted')
    /\ UNCHANGED <<lastOp, clock, stEntries, todayEntry, nextId, nCompletions, eodVars, extVars>>

\* resetAllData: clearAllData() then loadData()
ResetAllData ==
    /\ IsSome(profile)
    /\ LET r == loadData(None, <<>>, clock, Service, granted)
       IN  /\ stProfile' = r.stProfile
           /\ stEntries' = <<>>
           /\ profile' = r.profile
           /\ todayEntry' = r.todayEntry
           /\ scheduled' = r.svc.live
           /\ calls' = r.svc.log
    /\ UNCHANGED <<lastOp, clock, granted, nextId, nCompletions, eodVars, extVars>>

\* scheduleTaskTimeNotification(taskId, text, time): the one-shot nudge of a
\* task, scheduled as scheduleFocusNudge does
scheduleTaskTimeNotification(svc, taskId, time, clk, perm) ==
    scheduleFocusNudge(svc, taskId, time, clk, perm)

\* the time picker shown after a task was added (home screen)
HandleSetTaskTime(time) ==
    /\ IsSome(todayEntry)
    /\ Len(Get(todayEntry).tasks) > 0
    /\ LET entry == Get(todayEntry)
           lastTask == entry.tasks[Len(entry.tasks)]
           updatedTasks == [i \in 1..Len(entry.tasks) |->
                               IF entry.tasks[i].id = lastTask.id
                               THEN [entry.tasks[i] EXCEPT !.scheduledTime = Some(time)]
                               ELSE entry.tasks[i]]
           updated == [entry EXCEPT !.tasks = updatedTasks]
           saved == saveEntry(stEntries, updated)
           r == loadData(stProfile, saved, clock, Service, granted)
           svc == scheduleTaskTimeNotification(r.svc, lastTask.id, time, clock, granted)
       IN  /\ stEntries' = saved
           /\ stProfile' = r.stProfile
           /\ profile' = r.profile
           /\ todayEntry' = r.todayEntry
           /\ scheduled' = svc.live
           /\ calls' = svc.log
    /\ UNCHANGED <<lastOp, clock, granted, nextId, nCompletions, eodVars, extVars>>

\* midnight passes
NextDay ==
    /\ DateOf(clock) # DaysAfter(StartDate, MaxDays)
    /\ \E n \in AppNowMinutes :
          LET next == NextDate(DateOf(clock))
          IN  clock' = [y |-> next.y, m |-> next.m, d |-> next.d, mins |-> n, ms |-> 0]
    /\ scheduled' = [n \in { k \in DOMAIN scheduled : k.trigger.type # "timeInterval" }
                       |-> scheduled[n]]
    /\ calls' = <<>>
    /\ UNCHANGED <<lastOp, granted, appVars, eodVars, extVars>>

\* the operations of the app context, with the profile screen's switch that
\* calls updateProfile; the home screen's handlers are in NextUi
Next ==
    \/ LoadData
    \/ AddTask
    \/ \E i \in 1..Len(TodayTasks) : CompleteTask(TodayTasks[i].id)
    \/ \E mood \in Moods : AddReflection(mood)
    \/ \E screenSaysGranted \in BOOLEAN, asked \in BOOLEAN :
          HandleTogglePickReminder(~Get(profile).reminderPickTask.enabled,
                                   screenSaysGranted, asked)
    \/ ResetAllData
    \/ NextDay

Spec == Init /\ [][Next]_vars

\* a completeTask call that completes the last incomplete task of the entry
\* the context holds as today's
CompletesTheDay ==
    /\ nCompletions' = nCompletions + 1
    /\ Cardinality(OpenTasks) = 1
    /\ \A i \in 1..Len(TodayTasks) : Get(todayEntry').tasks[i].isCompleted

C3_Step ==
    CompletesTheDay =>
        LET p == Get(profile)
            q == Get(profile')
        IN  /\ Get(todayEntry').completed
            /\ stEntries'[Get(todayEntry).date].completed
            /\ stProfile' = profile'
            /\ IF p.currentLevelStreak + 1 >= 7 /\ p.currentLevel < 3
               THEN q.currentLevel = p.currentLevel + 1 /\ q.currentLevelStreak = 0
               ELSE /\ q.currentLevel = p.currentLevel
                    /\ q.currentLevelStreak = p.currentLevelStreak + 1

\* C3: a completeTask call that completes the last incomplete task marks
\* the entry completed and raises the streak by 1; when the raised streak
\* reaches 7 below level 3, the level rises by exactly 1 and the streak
\* becomes 0.
C3_CompletionRaisesStreakOrLevel == [][C3_Step]_vars

\* level 1 with streak 6 has become level 2 with streak 0
C3_Witness ==
    /\ nCompletions = 1
    /\ IsSome(profile)
    /\ stProfile = profile
    /\ Get(profile).currentLevel = 2
    /\ Get(profile).currentLevelStreak = 0
    /\ Get(profile).longestStreak = 7
    /\ Get(profile).totalTasksCompleted = 7
    /\ IsSome(todayEntry)
    /\ Get(todayEntry).completed

C4_Range ==
    /\ getProfile(stProfile).currentLevel \in {1, 2, 3}
    /\ IsSome(profile) => Get(profile).currentLevel \in {1, 2, 3}

\* a step of resetAllData: storage is cleared
IsReset == IsSome(stProfile) /\ stProfile' = None

C4_Step ==
    ~IsReset =>
        /\ Abs(getProfile(stProfile').currentLevel - getProfile(stProfile).currentLevel) <= 1
        /\ (IsSome(profile) /\ IsSome(profile')) =>
              Abs(Get(profile').currentLevel - Get(profile).currentLevel) <= 1

\* C4: currentLevel is always 1, 2 or 3, in storage and in the context, and
\* every operation other than a data reset (so every end-of-day evaluation
\* and every task completion) changes it by at most 1.
C4_LevelBounded == [](C4_Range) /\ [][C4_Step]_vars

\* level 3 has regressed to level 2
C4_Witness ==
    /\ IsSome(profile)
    /\ stProfile = profile
    /\ Get(profile).currentLevel = 2
    /\ Get(profile).currentLevelStreak = 0
    /\ Get(profile).totalTasksCompleted >= 2 * LevelUpStreak

----------------------------------------------------------------------------
(* The home screen driving the app context                                 *)

\* const canAddMoreTasks = useMemo(...)
canAddMoreTasks ==
    IF ~IsSome(profile) \/ ~IsSome(todayEntry) THEN TRUE
    ELSE Len(Get(todayEntry).tasks) < Get(profile).currentLevel

\* the screen's allDone and hasTasks
UiAllDone == Len(TodayTasks) > 0 /\ AllDone(TodayTasks)
UiHasTasks == Len(TodayTasks) > 0

\* ShowsAddTask without the `!allDone` of the "Add another task" button
ShowsAddTask_IgnoresAllDone ==
    /\ IsSome(profile)
    /\ UiHasTasks => canAddMoreTasks

\* a button that opens the task input is on screen: "Add your task" of the
\* empty state, or "Add another task" of the task list
ShowsAddTask ==
    /\ IsSome(profile)
    /\ ~UiAllDone
    /\ UiHasTasks => canAddMoreTasks

\* handleAddTask
HandleAddTask == ShowsAddTask /\ AddTask

\* ActiveTaskCard.handlePress of an open task, then handleProofOption('skip')
HandleProofOption(taskId) ==
    /\ IsSome(profile)
    /\ \E i \in OpenTasks : TodayTasks[i].id = taskId
    /\ CompleteTask(taskId)

\* ShowsReflectionPrompt without the `allDone` test
ShowsReflectionPrompt_AnyEntry ==
    /\ IsSome(profile)
    /\ IsSome(todayEntry)
    /\ ~IsSome(Get(todayEntry).reflection)

\* handleCelebrationDismiss opens the reflection prompt when allDone and
\* the entry has no reflection yet
ShowsReflectionPrompt ==
    /\ IsSome(profile)
    /\ UiAllDone
    /\ ~IsSome(Get(todayEntry).reflection)

\* handleReflection
HandleReflection(mood) == ShowsReflectionPrompt /\ AddReflection(mood)

NextUi ==
    \/ LoadData
    \/ HandleAddTask
    \/ \E i \in 1..Len(TodayTasks) : HandleProofOption(TodayTasks[i].id)
    \/ \E mood \in Moods : HandleReflection(mood)
    \/ \E screenSaysGranted \in BOOLEAN, asked \in BOOLEAN :
          HandleTogglePickReminder(~Get(profile).reminderPickTask.enabled,
                                   screenSaysGranted, asked)
    \/ ResetAllData
    \/ \E time \in AppTaskTimes : HandleSetTaskTime(time)
    \/ NextDay

SpecUi == Init /\ [][NextUi]_vars

\* C14: through any sequence of addTask and completeTask calls of the
\* context, today's persisted entry has completed = true exactly when it has
\* at least one task and every task is completed.
C14_CompletedIffAllDone ==
    LET today == getTodayDate(clock)
    IN  today \in DOMAIN stEntries =>
            ( stEntries[today].completed
                <=> (Len(stEntries[today].tasks) > 0 /\ AllDone(stEntries[today].tasks)) )

WrittenDates ==
    { d \in DOMAIN stEntries' : d \notin DOMAIN stEntries \/ stEntries'[d] # stEntries[d] }

C16_Step ==
    ( \/ AddTask
      \/ \E i \in 1..Len(TodayTasks) : CompleteTask(TodayTasks[i].id)
      \/ \E mood \in Moods : AddReflection(mood) )
    => /\ \A d \in WrittenDates : d = getTodayDate(clock)
       /\ \A d \in DOMAIN stEntries :
             StrLess(d, getTodayDate(clock)) =>
                 d \in DOMAIN stEntries' /\ stEntries'[d] = stEntries[d]

\* C16: addTask, completeTask and addReflection write only the entry dated
\* getTodayDate() at the time of the call and leave every entry with an
\* earlier date as it was, also after midnight has passed with the app open.
C16_PastEntriesImmutable == [][C16_Step]_vars

C18_Range ==
    /\ getProfile(stProfile).longestStreak >= getProfile(stProfile).currentLevelStreak
    /\ IsSome(profile) => Get(profile).longestStreak >= Get(profile).currentLevelStreak

C18_Step ==
    ~IsReset =>
        /\ getProfile(stProfile').longestStreak >= getProfile(stProfile).longestStreak
        /\ (IsSome(profile) /\ IsSome(profile')) =>
              Get(profile').longestStreak >= Get(profile).longestStreak

\* C18: longestStreak is at least currentLevelStreak in every state, in
\* storage and in the context, and no operation other than a data reset
\* lowers longestStreak.
C18_LongestStreakIsMaximum == [](C18_Range) /\ [][C18_Step]_vars

\* a missed day zeroed a streak of 6 at level 1; longestStreak kept it
C18_Witness ==
    /\ IsSome(profile)
    /\ stProfile = profile
    /\ Get(profile).currentLevel = 1
    /\ Get(profile).currentLevelStreak = 0
    /\ Get(profile).longestStreak = 6

----------------------------------------------------------------------------
(* scheduleFocusNudge around the minute of the task's time                 *)

MaxTicks == 6
TickMs == 500

\* "18:30" and "18:31"
NudgeTaskTimes == { <<1, 8, 3, 0>>, <<1, 8, 3, 1>> }

\* 18:29:58.000
NudgeStart == [y |-> 2024, m |-> 1, d |-> 1, mins |-> 1109, ms |-> 58000]

NudgeProfiles ==
    { [defaultProfile EXCEPT !.reminderFocusNudge = [enabled |-> fe],
                             !.reminderWrapUp = [enabled |-> we, time |-> <<1, 9, 0, 0>>]] :
        fe \in BOOLEAN, we \in BOOLEAN }

InitNudge ==
    /\ clock = NudgeStart
    /\ profile \in { Some(p) : p \in NudgeProfiles }
    /\ todayEntry \in { Some(Entry(getTodayDate(clock), <<Task(1, FALSE, Some(t))>>, FALSE, 1)) :
                          t \in NudgeTaskTimes }
    /\ scheduled \in SchedPriors(clock)
    /\ calls = <<>>
    /\ granted = TRUE
    /\ lastOp = "init"
    /\ stProfile = None
    /\ stEntries = <<>>
    /\ nextId = 0
    /\ nCompletions = 0
    /\ eodProfile = defaultProfile
    /\ eodEntries = <<>>
    /\ eodResult = None
    /\ eodCalls = 0
    /\ ExtIdle

\* milliseconds since NudgeStart
NudgeElapsed == (clock.mins - NudgeStart.mins) * 60000 + clock.ms - NudgeStart.ms

\* TickMs pass; the service delivers the one-shot notifications that fall due
NudgeTick ==
    /\ NudgeElapsed < MaxTicks * TickMs
    /\ clock' = IF clock.ms + TickMs >= 60000
                THEN [clock EXCEPT !.mins = clock.mins + 1, !.ms = clock.ms + TickMs - 60000]
                ELSE [clock EXCEPT !.ms = clock.ms + TickMs]
    /\ scheduled' = [n \in { k \in DOMAIN scheduled :
                               k.trigger.type = "timeInterval" => k.fireSec * 1000 > NowMs(clock') }
                       |-> scheduled[n]]
    /\ calls' = <<>>
    /\ lastOp' = "tick"
    /\ UNCHANGED <<granted, appVars, eodVars, extVars>>

NextNudge == NudgeTick \/ SchedNudge \/ SchedSync

SpecNudge == InitNudge /\ [][NextNudge]_vars

\* C30: every one-shot focus nudge that scheduleFocusNudge schedules has a
\* trigger interval of at least 1 second, also when the target time is less
\* than 1000 ms ahead of now.
C30_NudgeIntervalAtLeastOneSecond ==
    \A i \in 1..Len(calls) :
        (calls[i].op = "schedule" /\ calls[i].trigger.type = "timeInterval")
            => calls[i].trigger.seconds >= 1

----------------------------------------------------------------------------
(* loadData, addTask and completeTask from the start of a day              *)

\* dayStart is the profile the first loadData of the day puts in the context
InitDay ==
    /\ InitApp
    /\ procs = <<>>
    /\ failures = 0
    /\ rawProfile = None
    /\ rawEntries = None
    /\ loaded = None
    /\ dayStart = loadData(stProfile, stEntries, clock, Service, granted).profile

NextDayOps ==
    \/ LoadData
    \/ AddTask
    \/ \E i \in 1..Len(TodayTasks) : CompleteTask(TodayTasks[i].id)
    \/ NextDay

SpecDay == InitDay /\ [][NextDayOps]_vars

\* C26: currentLevelStreak increases by at most 1 per calendar day: after
\* any sequence of addTask and completeTask calls on the date the day began,
\* the streak, in the context and in storage, is at most the streak at the
\* start of the day (after the evaluation of the first loadData) plus 1.
C26_StreakAtMostOnePerDay ==
    (DateOf(clock) = StartDate /\ IsSome(profile)) =>
        /\ Get(profile).currentLevelStreak <= Get(dayStart).currentLevelStreak + 1
        /\ getProfile(stProfile).currentLevelStreak <= Get(dayStart).currentLevelStreak + 1

C27_Range ==
    /\ getProfile(stProfile).currentLevel < 3 => getProfile(stProfile).currentLevelStreak <= 6
    /\ (IsSome(profile) /\ Get(profile).currentLevel < 3) => Get(profile).currentLevelStreak <= 6

\* a completeTask call at level 3 after which the entry is completed
C27_Step ==
    ( /\ nCompletions' = nCompletions + 1
      /\ Get(profile).currentLevel = 3
      /\ Get(todayEntry').completed )
    => /\ Get(profile').currentLevel = 3
       /\ Get(profile').currentLevelStreak = Get(profile).currentLevelStreak + 1
       /\ stProfile' = profile'

\* C27: in every state reachable through loadData, addTask and completeTask
\* a level below 3 has a streak of at most 6 (a streak of 7 is converted at
\* once into a level-up with streak 0), and at level 3 a completed day raises
\* the streak by 1 with no reset.
C27_StreakBelowSevenUnderMaxLevel == [](C27_Range) /\ [][C27_Step]_vars

\* level 3 with a stored streak of 6 has reached a streak of 7
C27_Witness ==
    /\ nCompletions = 1
    /\ IsSome(profile)
    /\ stProfile = profile
    /\ Get(profile).currentLevel = 3
    /\ Get(profile).currentLevelStreak = 7
    /\ Get(todayEntry).completed

C28_Step ==
    LoadData =>
        LET p == getProfile(stProfile)
            q == Get(profile')
        IN  /\ q.name = p.name
            /\ q.longestStreak = p.longestStreak
            /\ q.totalTasksCompleted = p.totalTasksCompleted
            /\ q.onboardingComplete = p.onboardingComplete
            /\ q.reminderPickTask = p.reminderPickTask
            /\ q.reminderFocusNudge = p.reminderFocusNudge
            /\ q.reminderWrapUp = p.reminderWrapUp
            /\ stEntries' = stEntries
            /\ stProfile' # stProfile =>
                  /\ stProfile' = Some(q)
                  /\ \/ q.currentLevel # p.currentLevel
                     \/ q.currentLevelStreak # p.currentLevelStreak

\* C28: the end-of-day evaluation of loadData changes only currentLevel and
\* currentLevelStreak: name, longestStreak, totalTasksCompleted,
\* onboardingComplete and the reminder settings of the resulting profile
\* equal those of the profile read, the entries are not modified, and the
\* profile is written to storage only when the level or the streak changed.
C28_EndOfDayFrame == [][C28_Step]_vars

\* loadData found yesterday missed at level 2 streak 6 and stored level 1
\* streak 0 with the rest of the profile as it was
C28_Witness ==
    /\ IsSome(profile)
    /\ stProfile = profile
    /\ nCompletions = 0
    /\ todayEntry = None
    /\ Get(profile).currentLevel = 1
    /\ Get(profile).currentLevelStreak = 0
    /\ Get(profile).longestStreak = LevelUpStreak
    /\ Get(profile).totalTasksCompleted = LevelUpStreak + 6
    /\ Get(profile).reminderWrapUp.enabled

----------------------------------------------------------------------------
(* The async functions of the app context step by step: a call runs up to  *)
(* its next await, and other calls may run in between                      *)

MaxCalls == 2
MaxFailures == 1

CallIds == 1..MaxCalls

IdleCall ==
    [op |-> "idle", pc |-> "idle", arg |-> 0, prof |-> None, entry |-> None,
     prof0 |-> None, entry0 |-> None, map |-> <<>>, pending |-> <<>>, log |-> <<>>,
     overlapped |-> FALSE]

\* the calls that have started and not yet returned or thrown
InFlight == { c \in CallIds : procs[c].pc \notin {"idle", "done", "failed"} }

CanStart(c) ==
    /\ procs[c].pc = "idle"
    /\ \A b \in CallIds : b < c => procs[b].pc # "idle"

\* a call starts: the callback closes over the profile and todayEntry of the
\* last render
NewCall(op, arg, prof, entry, pc) ==
    [IdleCall EXCEPT !.op = op, !.pc = pc, !.arg = arg, !.prof = prof, !.entry = entry,
                     !.prof0 = profile, !.entry0 = todayEntry,
                     !.overlapped = (InFlight # {})]

AsyncFrame == UNCHANGED <<clock, calls, granted, lastOp, nCompletions, eodVars, loadVars, dayStart>>

\* "19:00"
AsyncProfile ==
    [defaultProfile EXCEPT !.currentLevel = 2, !.currentLevelStreak = 3,
                           !.longestStreak = LevelUpStreak,
                           !.totalTasksCompleted = 10,
                           !.onboardingComplete = TRUE,
                           !.reminderPickTask = [enabled |-> TRUE, time |-> <<0, 8, 0, 0>>],
                           !.reminderWrapUp = [enabled |-> TRUE, time |-> <<1, 9, 0, 0>>]]

AsyncClock == [y |-> 2024, m |-> 1, d |-> 1, mins |-> 540, ms |-> 0]

AsyncYesterday == LocalDateStr(PrevDate(DateOf(AsyncClock)))

\* today's entry with n open tasks
AsyncEntry(n) ==
    Entry(getTodayDate(AsyncClock), [i \in 1..n |-> Task(i, FALSE, None)], FALSE, 2)

\* what the reconcile asks of the notification service for (prof, entry):
\* the calls it makes, and what is live after them when nothing was before
RequiredCalls(prof, entryOpt) ==
    syncNotifications([live |-> EmptyBag, log |-> <<>>], prof, entryOpt, clock, granted).log
RequiredLive(prof, entryOpt) ==
    syncNotifications([live |-> EmptyBag, log |-> <<>>], prof, entryOpt, clock, granted).live

\* the app after a loadData that has finished, on a day with 0..MaxTasks open
\* tasks; or the app not loaded yet, with yesterday's task left open
InitAsync ==
    /\ clock = AsyncClock
    /\ granted = TRUE
    /\ stProfile = Some(AsyncProfile)
    /\ \/ \E n \in 0..MaxTasks :
             /\ stEntries = IF n = 0 THEN <<>>
                            ELSE [d \in {getTodayDate(clock)} |-> AsyncEntry(n)]
             /\ profile = stProfile
             /\ todayEntry = IF n = 0 THEN None ELSE Some(AsyncEntry(n))
             /\ nextId = n
             /\ scheduled = RequiredLive(AsyncProfile, todayEntry)
       \/ /\ stEntries = [d \in {AsyncYesterday} |->
                             Entry(d, <<Task(0, FALSE, None)>>, FALSE, 2)]
          /\ profile = None
          /\ todayEntry = None
          /\ nextId = 0
          /\ scheduled = RequiredLive(AsyncProfile, None)
    /\ procs = [c \in CallIds |-> IdleCall]
    /\ failures = 0
    /\ dayStart = stProfile
    /\ calls = <<>>
    /\ nCompletions = 0
    /\ lastOp = "init"
    /\ eodProfile = defaultProfile
    /\ eodEntries = <<>>
    /\ eodResult = None
    /\ eodCalls = 0
    /\ rawProfile = None
    /\ rawEntries = None
    /\ loaded = None

\* loadData() up to `await getProfile()`
StartLoadData(c) ==
    /\ CanStart(c)
    /\ procs' = [procs EXCEPT ![c] = NewCall("loadData", 0, None, None, "getProfile")]
    /\ UNCHANGED <<stProfile, stEntries, profile, todayEntry, scheduled, nextId, failures>>
    /\ AsyncFrame

\* addTask(text) up to the `await getAllEntries()` of saveEntry
StartAddTask(c) ==
    /\ CanStart(c)
    /\ IsSome(profile)
    /\ nextId < MaxIds
    /\ Len(TodayTasks) < MaxTasks
    /\ LET current == IF IsSome(todayEntry) THEN Get(todayEntry)
                      ELSE Entry(getTodayDate(clock), <<>>, FALSE, Get(profile).currentLevel)
           updated == [current EXCEPT !.tasks = Append(current.tasks, Task(nextId + 1, FALSE, None))]
       IN  procs' = [procs EXCEPT ![c] = NewCall("addTask", nextId + 1, profile, Some(updated),
                                                 "readEntries")]
    /\ nextId' = nextId + 1
    /\ UNCHANGED <<stProfile, stEntries, profile, todayEntry, scheduled, failures>>
    /\ AsyncFrame

\* completeTask(taskId) up to the `await getAllEntries()` of saveEntry
StartCompleteTask(c, taskId) ==
    /\ CanStart(c)
    /\ IsSome(todayEntry)
    /\ IsSome(profile)
    /\ LET entry == Get(todayEntry)
           updatedTasks == MarkCompleted(entry.tasks, taskId)
           allDone == AllDone(updatedTasks)
           newProfile == CompletionProfile(Get(profile), allDone, Len(updatedTasks))
           updated == [entry EXCEPT !.tasks = updatedTasks, !.completed = allDone]
       IN  procs' = [procs EXCEPT ![c] = NewCall("completeTask", taskId, Some(newProfile),
                                                 Some(updated), "readEntries")]
    /\ UNCHANGED <<stProfile, stEntries, profile, todayEntry, scheduled, nextId, failures>>
    /\ AsyncFrame

\* addReflection(mood) up to the `await getAllEntries()` of saveEntry
StartAddReflection(c, mood) ==
    /\ CanStart(c)
    /\ IsSome(todayEntry)
    /\ LET updated == [Get(todayEntry) EXCEPT !.reflection = Some(mood)]
       IN  procs' = [procs EXCEPT ![c] = NewCall("addReflection", 0, profile, Some(updated),
                                                 "readEntries")]
    /\ UNCHANGED <<stProfile, stEntries, profile, todayEntry, scheduled, nextId, failures>>
    /\ AsyncFrame

\* handleTogglePickReminder(value) with the permission granted, up to the
\* `await saveProfile(newProfile)` of updateProfile
StartToggle(c) ==
    /\ CanStart(c)
    /\ IsSome(profile)
    /\ LET p == Get(profile)
           newProfile == [p EXCEPT !.reminderPickTask.enabled = ~p.reminderPickTask.enabled]
       IN  procs' = [procs EXCEPT ![c] = NewCall("toggle", 0, Some(newProfile), todayEntry,
                                                 "saveProfile")]
    /\ UNCHANGED <<stProfile, stEntries, profile, todayEntry, scheduled, nextId, failures>>
    /\ AsyncFrame

\* saveEntry(entry) called on its own with an entry dated yesterday
StartSaveEntry(c) ==
    /\ CanStart(c)
    /\ procs' = [procs EXCEPT ![c] =
                    NewCall("saveEntry", 0, None,
                            Some(Entry(AsyncYesterday, <<Task(0, TRUE, None)>>, TRUE, 2)),
                            "readEntries")]
    /\ UNCHANGED <<stProfile, stEntries, profile, todayEntry, scheduled, nextId, failures>>
    /\ AsyncFrame

\* loadData: getProfile() returns
GetProfileReturns(c) ==
    /\ procs[c].pc = "getProfile"
    /\ procs' = [procs EXCEPT ![c].prof = Some(getProfile(stProfile)),
                              ![c].pc = "getAllEntries"]
    /\ UNCHANGED <<stProfile, stEntries, profile, todayEntry, scheduled, nextId, failures>>
    /\ AsyncFrame

\* loadData: getAllEntries() returns; processEndOfDay; then either
\* `await saveProfile(prof)` or setProfile, setTodayEntry and the start of
\* syncNotifications
GetAllEntriesReturns(c) ==
    /\ procs[c].pc = "getAllEntries"
    /\ LET prof0 == Get(procs[c].prof)
           processed == processEndOfDay(prof0, stEntries, clock)
           changed == \/ processed.currentLevel # prof0.currentLevel
                      \/ processed.currentLevelStreak # prof0.currentLevelStreak
           today == getTodayDate(clock)
           currentTodayEntry == IF today \in DOMAIN stEntries THEN Some(stEntries[today]) ELSE None
           evaluated == Append(procs[c].log, [step |-> "evaluate"])
       IN  IF changed
           THEN /\ procs' = [procs EXCEPT ![c].prof = Some(processed),
                                          ![c].entry = currentTodayEntry,
                                          ![c].map = stEntries,
                                          ![c].log = evaluated,
                                          ![c].pc = "saveProfile"]
                /\ UNCHANGED <<profile, todayEntry>>
           ELSE /\ procs' = [procs EXCEPT ![c].entry = currentTodayEntry,
                                          ![c].map = stEntries,
                                          ![c].log = Append(evaluated,
                                               [step |-> "sync", prof |-> Some(prof0),
                                                entry |-> currentTodayEntry]),
                                          ![c].pc = "permission"]
                /\ profile' = Some(prof0)
                /\ todayEntry' = currentTodayEntry
    /\ UNCHANGED <<stProfile, stEntries, scheduled, nextId, failures>>
    /\ AsyncFrame

\* saveEntry: getAllEntries() returns
ReadEntries(c) ==
    /\ procs[c].pc = "readEntries"
    /\ procs' = [procs EXCEPT ![c].map = stEntries, ![c].pc = "writeEntries"]
    /\ UNCHANGED <<stProfile, stEntries, profile, todayEntry, scheduled, nextId, failures>>
    /\ AsyncFrame

\* saveEntry: entries[entry.date] = entry on the map read, setItem resolves,
\* and the caller runs on to its next await
WriteEntries(c) ==
    /\ procs[c].pc = "writeEntries"
    /\ LET entry == Get(procs[c].entry)
           saved == Append(procs[c].log, [step |-> "saveEntry", value |-> entry])
       IN  /\ stEntries' = saveEntry(procs[c].map, entry)
           /\ IF procs[c].op = "completeTask"
              THEN /\ procs' = [procs EXCEPT ![c].log = saved, ![c].pc = "saveProfile"]
                   /\ UNCHANGED todayEntry
              ELSE IF procs[c].op = "saveEntry"
              THEN /\ procs' = [procs EXCEPT ![c].log = saved, ![c].pc = "done"]
                   /\ UNCHANGED todayEntry
              ELSE /\ todayEntry' = Some(entry)
                   /\ IF IsSome(procs[c].prof)
                      THEN procs' = [procs EXCEPT
                                        ![c].log = Append(saved,
                                             [step |-> "sync", prof |-> procs[c].prof,
                                              entry |-> procs[c].entry]),
                                        ![c].pc = "permission"]
                      ELSE procs' = [procs EXCEPT ![c].log = saved, ![c].pc = "done"]
    /\ UNCHANGED <<stProfile, profile, scheduled, nextId, failures>>
    /\ AsyncFrame

\* saveProfile: setItem resolves, the caller sets the context state and
\* starts the reconcile
SaveProfileReturns(c) ==
    /\ procs[c].pc = "saveProfile"
    /\ stProfile' = procs[c].prof
    /\ profile' = procs[c].prof
    /\ todayEntry' = IF procs[c].op = "toggle" THEN todayEntry ELSE procs[c].entry
    /\ procs' = [procs EXCEPT
                    ![c].log = procs[c].log \o
                        << [step |-> "saveProfile", value |-> Get(procs[c].prof)],
                           [step |-> "sync", prof |-> procs[c].prof, entry |-> procs[c].entry] >>,
                    ![c].pc = "permission"]
    /\ UNCHANGED <<stEntries, scheduled, nextId, failures>>
    /\ AsyncFrame

\* AsyncStorage.setItem rejects: saveEntry or saveProfile throws, and the
\* caller with it (loadData catches and logs)
WriteFails(c) ==
    /\ procs[c].pc \in {"writeEntries", "saveProfile"}
    /\ failures < MaxFailures
    /\ failures' = failures + 1
    /\ procs' = [procs EXCEPT ![c].pc = "failed"]
    /\ UNCHANGED <<stProfile, stEntries, profile, todayEntry, scheduled, nextId>>
    /\ AsyncFrame

\* syncNotifications: getNotificationPermissionStatus() returns; the calls
\* to the notification service that follow depend on the arguments only
PermissionReturns(c) ==
    /\ procs[c].pc = "permission"
    /\ LET todo == RequiredCalls(Get(procs[c].prof), procs[c].entry)
       IN  procs' = [procs EXCEPT ![c].pending = todo,
                                  ![c].pc = IF todo = <<>> THEN "done" ELSE "notify"]
    /\ UNCHANGED <<stProfile, stEntries, profile, todayEntry, scheduled, nextId, failures>>
    /\ AsyncFrame

\* syncNotifications: the next awaited call to the notification service
NotifyReturns(c) ==
    /\ procs[c].pc = "notify"
    /\ LET call == Head(procs[c].pending)
           svc == IF call.op = "cancel"
                  THEN cancelScheduledNotificationAsync(Service, call.id)
                  ELSE scheduleNotificationAsync(Service, call.id, call.trigger, clock)
       IN  scheduled' = svc.live
    /\ procs' = [procs EXCEPT ![c].pending = Tail(procs[c].pending),
                              ![c].pc = IF Len(procs[c].pending) = 1 THEN "done" ELSE "notify"]
    /\ UNCHANGED <<stProfile, stEntries, profile, todayEntry, nextId, failures>>
    /\ AsyncFrame

NextAsync ==
    \E c \in CallIds :
        \/ StartLoadData(c)
        \/ StartAddTask(c)
        \/ \E i \in 1..Len(TodayTasks) : StartCompleteTask(c, TodayTasks[i].id)
        \/ \E mood \in Moods : StartAddReflection(c, mood)
        \/ StartToggle(c)
        \/ StartSaveEntry(c)
        \/ GetProfileReturns(c)
        \/ GetAllEntriesReturns(c)
        \/ ReadEntries(c)
        \/ WriteEntries(c)
        \/ SaveProfileReturns(c)
        \/ WriteFails(c)
        \/ PermissionReturns(c)
        \/ NotifyReturns(c)

SpecAsync == InitAsync /\ [][NextAsync]_vars

\* the place of a step in the required order: evaluate progression, persist
\* profile, persist entry, reconcile notifications
C21_StepRank(step) ==
    IF step = "evaluate" THEN 0
    ELSE IF step = "saveProfile" THEN 1
    ELSE IF step = "saveEntry" THEN 2
    ELSE 3

\* the steps of one call are in the required order, and its reconcile is
\* called with the values the call wrote
C21_OrderedSteps(log) ==
    /\ \A i \in 1..Len(log), j \in 1..Len(log) :
          i < j => C21_StepRank(log[i].step) < C21_StepRank(log[j].step)
    /\ \A i \in 1..Len(log), j \in 1..Len(log) :
          log[j].step = "sync" =>
              /\ log[i].step = "saveProfile" => log[j].prof = Some(log[i].value)
              /\ log[i].step = "saveEntry" => log[j].entry = Some(log[i].value)

\* C21: in every mutating event (loadData, addTask, completeTask,
\* addReflection, reminder setting change) the steps occur in the order
\* evaluate progression (loadData only), persist profile, persist entry,
\* reconcile notifications; syncNotifications starts after the writes of the
\* event have completed and is called with the values just written.
C21_EventStepOrder ==
    \A c \in CallIds :
        /\ C21_OrderedSteps(procs[c].log)
        /\ \A i \in 1..Len(procs[c].log) :
              procs[c].log[i].step = "evaluate" => (procs[c].op = "loadData" /\ i = 1)

\* today's entry as storage holds it
StoredToday ==
    IF getTodayDate(clock) \in DOMAIN stEntries
    THEN Some(stEntries[getTodayDate(clock)]) ELSE None

\* the call reconciles the notifications
Reconciles(c) == \E i \in 1..Len(procs[c].log) : procs[c].log[i].step = "sync"

\* every call made has returned after a reconcile, and one of them started
\* while another was in flight
OverlappedAndFinished ==
    /\ \A c \in CallIds : procs[c].pc = "idle" \/ (procs[c].pc = "done" /\ Reconciles(c))
    /\ \E c \in CallIds : procs[c].overlapped

\* C22: when two events fire in quick succession, so that their
\* syncNotifications calls interleave at their awaits, once both have
\* finished the live notifications are those required by the last persisted
\* state, with no reminder left over from the earlier state.
C22_ReconcilesDoNotInterleave ==
    OverlappedAndFinished =>
        scheduled = RequiredLive(getProfile(stProfile), StoredToday)

\* calls a and b have both returned, and they overlapped
BothDoneOverlapped(a, b) ==
    /\ a # b
    /\ procs[a].pc = "done"
    /\ procs[b].pc = "done"
    /\ procs[a].overlapped \/ procs[b].overlapped

\* no other call was made
OnlyCalls(a, b) == \A c \in CallIds \ {a, b} : procs[c].pc = "idle"

\* C23: profile and entry writes are serialized so that no update is lost:
\* after two overlapping completeTask calls for two different tasks of
\* today's entry the persisted entry has both tasks completed and
\* totalTasksCompleted has grown by 2; after two overlapping saveEntry calls
\* for different dates both entries are in the entries map.
C23_NoLostUpdate ==
    \A a \in CallIds, b \in CallIds :
        (BothDoneOverlapped(a, b) /\ OnlyCalls(a, b)) =>
            /\ ( /\ procs[a].op = "completeTask"
                 /\ procs[b].op = "completeTask"
                 /\ procs[a].arg # procs[b].arg )
               => /\ IsSome(StoredToday)
                  /\ \A i \in 1..Len(Get(StoredToday).tasks) :
                        Get(StoredToday).tasks[i].id \in {procs[a].arg, procs[b].arg}
                            => Get(StoredToday).tasks[i].isCompleted
                  /\ getProfile(stProfile).totalTasksCompleted
                        = Get(dayStart).totalTasksCompleted + 2
            /\ ( /\ IsSome(procs[a].entry)
                 /\ IsSome(procs[b].entry)
                 /\ procs[a].op \in {"saveEntry", "addTask", "addReflection", "completeTask"}
                 /\ procs[b].op \in {"saveEntry", "addTask", "addReflection", "completeTask"}
                 /\ Get(procs[a].entry).date # Get(procs[b].entry).date )
               => /\ Get(procs[a].entry).date \in DOMAIN stEntries
                  /\ stEntries[Get(procs[a].entry).date] = Get(procs[a].entry)

\* C29: completeTask is atomic with respect to storage failure: when
\* saveEntry or saveProfile fails in a completeTask call (the only call
\* made), storage does not hold the entry with the completion next to a
\* profile whose streak and totalTasksCompleted lack it, and the in-memory
\* profile and entry are as they were before the call.
C29_CompleteTaskAtomicOnFailure ==
    \A c \in CallIds :
        ( /\ procs[c].op = "completeTask"
          /\ procs[c].pc = "failed"
          /\ \A b \in CallIds \ {c} : procs[b].pc = "idle" )
        => /\ StoredToday = procs[c].entry => stProfile = procs[c].prof
           /\ profile = procs[c].prof0
           /\ todayEntry = procs[c].entry0

----------------------------------------------------------------------------
(* Reading persisted data: JSON.parse, the zod schemas, getProfile and     *)
(* getAllEntries                                                           *)

\* JSON values.  An object is the function from its keys to its values.
JNull == [t |-> "null"]
JBool(b) == [t |-> "boolean", b |-> b]
JNum(n) == [t |-> "number", n |-> n]
JStr(s) == [t |-> "string", s |-> s]
JArr(v) == [t |-> "array", v |-> v]
JObj(f) == [t |-> "object", f |-> f]

\* what AsyncStorage.getItem returns: null, a text JSON.parse rejects, or
\* the text of a JSON value
Absent == [kind |-> "absent"]
Corrupt == [kind |-> "corrupt"]
Text(json) == [kind |-> "text", json |-> json]

Restrict(f, keys) == [k \in DOMAIN f \cap keys |-> f[k]]

\* {...a, ...b}
Spread(a, b) == [k \in DOMAIN a \cup DOMAIN b |-> IF k \in DOMAIN b THEN b[k] ELSE a[k]]

NoFields == [k \in {} |-> JNull]

ProfileKeys ==
    {"name", "createdAt", "currentLevel", "currentLevelStreak", "longestStreak",
     "totalTasksCompleted", "reminderEnabled", "reminderTime", "onboardingComplete",
     "reminderPickTask", "reminderFocusNudge", "reminderWrapUp"}
ReminderConfigKeys == {"enabled", "time"}
FocusNudgeConfigKeys == {"enabled"}
TaskItemKeys ==
    {"id", "text", "createdAt", "completedAt", "scheduledTime", "proof", "isCompleted"}
ReflectionKeys == {"mood", "note"}
DailyEntryKeys ==
    {"date", "tasks", "reflection", "completed", "levelAtTime",
     "completionMessageIndex", "completionAnimationSeen"}

\* z.string(), z.boolean(), z.number().int().min(0), the level literals
IsStr(j) == j.t = "string"
IsBool(j) == j.t = "boolean"
IsCount(j) == j.t = "number" /\ j.n >= 0
IsLevel(j) == j.t = "number" /\ j.n \in {1, 2, 3}

\* a required key and an optional one
Req(j, k, Ok(_)) == k \in DOMAIN j.f /\ Ok(j.f[k])
Opt(j, k, Ok(_)) == k \in DOMAIN j.f => Ok(j.f[k])

ReminderConfigSchema(j) ==
    /\ j.t = "object"
    /\ Req(j, "enabled", IsBool)
    /\ Req(j, "time", IsStr)

FocusNudgeConfigSchema(j) ==
    /\ j.t = "object"
    /\ Req(j, "enabled", IsBool)

UserProfileSchema(j) ==
    /\ j.t = "object"
    /\ Req(j, "name", IsStr)
    /\ Req(j, "createdAt", IsStr)
    /\ Req(j, "currentLevel", IsLevel)
    /\ Req(j, "currentLevelStreak", IsCount)
    /\ Req(j, "longestStreak", IsCount)
    /\ Req(j, "totalTasksCompleted", IsCount)
    /\ Req(j, "reminderEnabled", IsBool)
    /\ Req(j, "reminderTime", IsStr)
    /\ Req(j, "onboardingComplete", IsBool)
    /\ Req(j, "reminderPickTask", ReminderConfigSchema)
    /\ Req(j, "reminderFocusNudge", FocusNudgeConfigSchema)
    /\ Req(j, "reminderWrapUp", ReminderConfigSchema)

\* z.string().min(1)
IsNonEmptyStr(j) == j.t = "string" /\ j.s # ""

\* proof is not modelled: no stored task has one
TaskItemSchema(j) ==
    /\ j.t = "object"
    /\ Req(j, "id", IsStr)
    /\ Req(j, "text", IsNonEmptyStr)
    /\ Req(j, "createdAt", IsStr)
    /\ Opt(j, "completedAt", IsStr)
    /\ Opt(j, "scheduledTime", IsStr)
    /\ Req(j, "isCompleted", IsBool)

IsMood(j) == j.t = "string" /\ j.s \in {"energized", "calm", "neutral", "tough"}

ReflectionSchema(j) ==
    /\ j.t = "object"
    /\ Req(j, "mood", IsMood)
    /\ Opt(j, "note", IsStr)

IsTaskArray(j) ==
    /\ j.t = "array"
    /\ \A i \in 1..Len(j.v) : TaskItemSchema(j.v[i])

IsNumber(j) == j.t = "number"

DailyEntrySchema(j) ==
    /\ j.t = "object"
    /\ Req(j, "date", IsStr)
    /\ Req(j, "tasks", IsTaskArray)
    /\ Opt(j, "reflection", ReflectionSchema)
    /\ Req(j, "completed", IsBool)
    /\ Req(j, "levelAtTime", IsLevel)
    /\ Opt(j, "completionMessageIndex", IsNumber)
    /\ Opt(j, "completionAnimationSeen", IsBool)

\* result.data of a successful safeParse: z.object drops the keys the
\* schema does not name
ProfileData(j) ==
    JObj([k \in ProfileKeys |->
            IF k \in {"reminderPickTask", "reminderWrapUp"}
            THEN JObj(Restrict(j.f[k].f, ReminderConfigKeys))
            ELSE IF k = "reminderFocusNudge"
            THEN JObj(Restrict(j.f[k].f, FocusNudgeConfigKeys))
            ELSE j.f[k]])

TaskData(j) == JObj(Restrict(j.f, TaskItemKeys))

EntryData(j) ==
    JObj([k \in DOMAIN j.f \cap DailyEntryKeys |->
            IF k = "tasks"
            THEN JArr([i \in 1..Len(j.f[k].v) |-> TaskData(j.f[k].v[i])])
            ELSE IF k = "reflection"
            THEN JObj(Restrict(j.f[k].f, ReflectionKeys))
            ELSE j.f[k]])

\* parseUserProfile(data): the validated profile or null
parseUserProfile(data) ==
    IF UserProfileSchema(data) THEN Some(ProfileData(data)) ELSE None

\* parseEntries that gives up on the whole record when one entry is invalid
parseEntries_AllOrNothing(data) ==
    IF data.t # "object" THEN NoFields
    ELSE IF \E key \in DOMAIN data.f : ~DailyEntrySchema(data.f[key]) THEN NoFields
    ELSE [key \in DOMAIN data.f |-> EntryData(data.f[key])]

\* parseEntries(data): the entries that pass the schema
parseEntries(data) ==
    IF data.t # "object" THEN NoFields
    ELSE LET valid == { key \in DOMAIN data.f : DailyEntrySchema(data.f[key]) }
         IN  [key \in valid |-> EntryData(data.f[key])]

\* JSON.stringify of a profile of the app
ProfileJson(p) ==
    JObj([name |-> JStr(p.name),
          createdAt |-> JStr("2023-06-01T08:00:00.000Z"),
          currentLevel |-> JNum(p.currentLevel),
          currentLevelStreak |-> JNum(p.currentLevelStreak),
          longestStreak |-> JNum(p.longestStreak),
          totalTasksCompleted |-> JNum(p.totalTasksCompleted),
          reminderEnabled |-> JBool(FALSE),
          reminderTime |-> JStr(<<0, 9, 0, 0>>),
          onboardingComplete |-> JBool(p.onboardingComplete),
          reminderPickTask |-> JObj([enabled |-> JBool(p.reminderPickTask.enabled),
                                     time |-> JStr(p.reminderPickTask.time)]),
          reminderFocusNudge |-> JObj([enabled |-> JBool(p.reminderFocusNudge.enabled)]),
          reminderWrapUp |-> JObj([enabled |-> JBool(p.reminderWrapUp.enabled),
                                   time |-> JStr(p.reminderWrapUp.time)])])

\* the profile record of a JSON object that passed UserProfileSchema
ProfileOfJson(j) ==
    [name |-> j.f.name.s,
     currentLevel |-> j.f.currentLevel.n,
     currentLevelStreak |-> j.f.currentLevelStreak.n,
     longestStreak |-> j.f.longestStreak.n,
     totalTasksCompleted |-> j.f.totalTasksCompleted.n,
     onboardingComplete |-> j.f.onboardingComplete.b,
     reminderPickTask |-> [enabled |-> j.f.reminderPickTask.f.enabled.b,
                           time |-> j.f.reminderPickTask.f.time.s],
     reminderFocusNudge |-> [enabled |-> j.f.reminderFocusNudge.f.enabled.b],
     reminderWrapUp |-> [enabled |-> j.f.reminderWrapUp.f.enabled.b,
                         time |-> j.f.reminderWrapUp.f.time.s]]

\* defaultProfile of lib/storage.ts: its createdAt is the time the module
\* was loaded
defaultProfileFields ==
    Spread(ProfileJson(defaultProfile).f, [createdAt |-> JStr("2024-01-01T08:59:59.000Z")])

\* { ...defaultProfile, createdAt: new Date().toISOString() }
FreshDefault ==
    JObj(Spread(defaultProfileFields, [createdAt |-> JStr("2024-01-01T09:00:00.000Z")]))

\* typeof x === 'object' && x !== null ? x : {}
FieldsOrNone(j) == IF j.t = "object" THEN j.f ELSE NoFields

\* parsedObj.key, undefined (modelled as null) when the key is missing
Field(f, k) == IF k \in DOMAIN f THEN f[k] ELSE JNull

\* getProfile() on the stored text
getProfileFromText(raw) ==
    IF raw.kind = "absent" THEN FreshDefault
    ELSE IF raw.kind = "corrupt" THEN FreshDefault
    ELSE LET parsedObj == FieldsOrNone(raw.json)
             merged ==
                 Spread(Spread(defaultProfileFields, parsedObj),
                        [reminderPickTask |->
                            JObj(Spread(defaultProfileFields.reminderPickTask.f,
                                        FieldsOrNone(Field(parsedObj, "reminderPickTask")))),
                         reminderWrapUp |->
                            JObj(Spread(defaultProfileFields.reminderWrapUp.f,
                                        FieldsOrNone(Field(parsedObj, "reminderWrapUp"))))])
             validated == parseUserProfile(JObj(merged))
         IN  IF IsSome(validated) THEN Get(validated) ELSE FreshDefault

\* getAllEntries() on the stored text
getAllEntries(raw) ==
    IF raw.kind = "absent" THEN NoFields
    ELSE IF raw.kind = "corrupt" THEN NoFields
    ELSE parseEntries(raw.json)

\* the entries as processEndOfDay reads them
EntriesOfJson(entries) ==
    [d \in DOMAIN entries |->
        [date |-> entries[d].f.date.s,
         tasks |-> entries[d].f.tasks.v,
         completed |-> entries[d].f.completed.b,
         levelAtTime |-> entries[d].f.levelAtTime.n]]

MaxRawDates == 2

LoadClock == [y |-> 2024, m |-> 1, d |-> 1, mins |-> 540, ms |-> 0]

\* a stored task and the stored entries of a date: completed, open, and the
\* ways they can be malformed or carry a key the schema does not name
RawTask(done) ==
    JObj([id |-> JStr("t1"), text |-> JStr("one thing"),
          createdAt |-> JStr("2023-12-30T09:00:00.000Z"), isCompleted |-> JBool(done)])

RawEntry(d, done) ==
    JObj([date |-> JStr(d), tasks |-> JArr(<<RawTask(done)>>),
          completed |-> JBool(done), levelAtTime |-> JNum(2)])

RawEntryShapes(d) ==
    { RawEntry(d, TRUE),
      RawEntry(d, FALSE),
      JObj(Spread(RawEntry(d, FALSE).f, [completed |-> JStr("yes")])),
      JObj(Restrict(RawEntry(d, FALSE).f, {"date", "completed", "levelAtTime"})),
      JObj(Spread(RawEntry(d, FALSE).f,
                  [tasks |-> JArr(<<JObj(Spread(RawTask(FALSE).f, [text |-> JStr("")]))>>)])),
      JObj(Spread(RawEntry(d, TRUE).f, [syncedAt |-> JStr("2023-12-31T00:00:00.000Z")])),
      JObj(Spread(RawEntry(d, TRUE).f,
                  [tasks |-> JArr(<<JObj(Spread(RawTask(TRUE).f, [priority |-> JNum(1)]))>>)])),
      JNum(5),
      JNull }

RawDates == { LocalDateStr(DaysBefore(DateOf(LoadClock), k)) : k \in 1..MaxRawDates }

RawEntriesTexts ==
    { Absent, Corrupt, Text(JNull), Text(JStr("invalid")) }
    \cup UNION { { Text(JObj(m)) :
                     m \in { e \in [ds -> UNION { RawEntryShapes(d) : d \in ds }] :
                               \A d \in ds : e[d] \in RawEntryShapes(d) } } :
                 ds \in SUBSET RawDates }

\* the stored profile: a profile the app wrote, and the ways it can be
\* malformed, incomplete or carry a key the schema does not name
RawProfileTexts ==
    LET stored == ProfileJson(AsyncProfile).f
    IN  { Absent, Corrupt, Text(JNull), Text(JStr("invalid")),
          Text(JObj(stored)),
          Text(JObj(Spread(stored, [currentLevel |-> JNum(4)]))),
          Text(JObj(Spread(stored, [currentLevelStreak |-> JStr("3")]))),
          Text(JObj(Spread(stored, [reminderWrapUp |-> JNull]))),
          Text(JObj(Spread(stored, [theme |-> JStr("dark")]))),
          Text(JObj(Restrict(stored, {"currentLevel", "currentLevelStreak"}))),
          Text(JObj(Spread(stored, [reminderPickTask |-> JObj([enabled |-> JBool(TRUE)])]))) }

InitLoad ==
    /\ clock = LoadClock
    /\ rawProfile \in RawProfileTexts
    /\ rawEntries \in RawEntriesTexts
    /\ loaded = None
    /\ procs = <<>>
    /\ failures = 0
    /\ dayStart = None
    /\ stProfile = None
    /\ stEntries = <<>>
    /\ profile = None
    /\ todayEntry = None
    /\ scheduled = EmptyBag
    /\ calls = <<>>
    /\ granted = FALSE
    /\ nextId = 0
    /\ nCompletions = 0
    /\ lastOp = "init"
    /\ eodProfile = defaultProfile
    /\ eodEntries = <<>>
    /\ eodResult = None
    /\ eodCalls = 0

\* the head of loadData: getProfile(), getAllEntries(), processEndOfDay()
ReadStorage ==
    /\ loaded = None
    /\ LET prof == getProfileFromText(rawProfile)
           allEntries == getAllEntries(rawEntries)
       IN  loaded' = Some([profile |-> prof,
                           entries |-> allEntries,
                           processed |-> processEndOfDay(ProfileOfJson(prof),
                                                         EntriesOfJson(allEntries), clock)])
    /\ UNCHANGED <<clock, rawProfile, rawEntries, appVars, svcVars, eodVars, asyncVars, dayStart>>

NextLoad == ReadStorage

SpecLoad == InitLoad /\ [][NextLoad]_vars

\* the stored entries record when the text is that of a JSON object
RawEntryFields == IF rawEntries.kind = "text" THEN FieldsOrNone(rawEntries.json) ELSE NoFields

\* the dates whose stored entry passes the schema
ValidDates == { d \in DOMAIN RawEntryFields : DailyEntrySchema(RawEntryFields[d]) }

LoadYesterday == LocalDateStr(PrevDate(DateOf(clock)))

\* yesterday's stored entry is malformed; processEndOfDay returned what it
\* returns when the entry is missing
MalformedYesterdayAsMissing ==
    (LoadYesterday \in DOMAIN RawEntryFields \ ValidDates) =>
        LET r == Get(loaded)
            others == [d \in DOMAIN r.entries \ {LoadYesterday} |-> r.entries[d]]
        IN  /\ LoadYesterday \notin DOMAIN r.entries
            /\ r.processed = processEndOfDay(ProfileOfJson(r.profile),
                                             EntriesOfJson(others), clock)

\* the stored profile when the text is that of a JSON object
RawProfileFields == IF rawProfile.kind = "text" THEN FieldsOrNone(rawProfile.json) ELSE NoFields

FilledConfig(k) ==
    LET given == FieldsOrNone(Field(RawProfileFields, k))
    IN  JObj([x \in ReminderConfigKeys |->
                IF x \in DOMAIN given THEN given[x] ELSE defaultProfileFields[k].f[x]])

\* the stored profile with its missing fields taken from the default
FilledProfile ==
    JObj([k \in ProfileKeys |->
            IF k \in {"reminderPickTask", "reminderWrapUp"} THEN FilledConfig(k)
            ELSE IF k \in DOMAIN RawProfileFields THEN RawProfileFields[k]
            ELSE defaultProfileFields[k]])

====
